---- MODULE Spec2Model ----
(***************************************************************************)
(* Keyra: a Redis-compatible in-memory server (Go).                        *)
(*                                                                         *)
(* The model follows the Go sources.  One critical section of the store    *)
(* (a method of store.Store holding Store.mu) is one atomic step; a        *)
(* command handler that makes several store calls is a sequence of such    *)
(* steps, and the goroutines of different connections interleave between   *)
(* them.  Different groups of claims are checked under different           *)
(* specifications over the same variables; a specification leaves the      *)
(* variables of the subsystems it does not exercise at their initial       *)
(* value.                                                                  *)
(***************************************************************************)
EXTENDS Integers, Sequences, FiniteSets, TLC

VARIABLES
    db,                 \* Store.databases: database index -> key -> value
    currentDB,          \* Store.currentDB (one field of the shared Store)
    password,           \* Server.password
    authenticatedConns, \* Server.authenticatedConns (set of connection keys)
    tx,                 \* Server.transactionContexts: connKey -> context
    pc,                 \* per connection: where its handler goroutine is
    last,               \* the last command taken off the wire: [conn, cmd, reply]
    watchDirty,         \* history: watched keys written since their WATCH
    selected,           \* history: the index of the connection's last SELECT
    subscribers,        \* PubSubSystem.subscribers (set of connection keys)
    channels,           \* Subscriber.channels, per subscriber
    patterns,           \* Subscriber.patterns, per subscriber
    channelSubs,        \* PubSubSystem.channelSubs: channel -> connection keys
    patternSubs,        \* PubSubSystem.patternSubs: pattern -> connection keys
    messageChan,        \* Subscriber.messageChan: the bounded inbox
    received,           \* history: what messageLoop wrote to the connection
    published,          \* history: the number of PUBLISH commands so far
    placed,             \* history: per message, the inbox sends that succeeded
    activeCount,        \* ConnectionPool.activeCount
    connections,        \* ConnectionPool.connections (set of connection ids)
    accepting,          \* per arriving connection: where its AcceptConnection is
    expiration,         \* Database.expiration: database index -> key -> instant
    now,                \* the clock (time.Now), in seconds
    mu,                 \* Store.mu: the connection holding the write lock, or "none"
    aof,                \* the append-only file: the commands AOF.WriteCommand wrote, in order
    snapshot,           \* the snapshot file Persistence.Save wrote, or NoSnapshot
    saved,              \* history: the keyspace when the last rewrite or save ran
    authWith,           \* history: per connection, the passwords its AUTH was accepted with
    rewrite,            \* the rewrite goroutine: its step, its temporary file, and (history)
                        \* the keys acknowledged while it ran
    lastActivity,       \* ClientConnection.lastActivity of each connection of the pool
    reaper,             \* removeIdleConnections: its step and the keys it is about to remove
    handler             \* per subscribing connection: where its handler is

\* the variables of the keyspace, the transactions and the authentication
kvvars == <<db, currentDB, password, authenticatedConns, tx, watchDirty, selected>>

\* the variables of the publish/subscribe system
psvars == <<subscribers, channels, patterns, channelSubs, patternSubs,
            messageChan, received, published, placed>>

\* the variables of the connection pool
cpvars == <<activeCount, connections, accepting>>

\* the expiration records and the clock
exvars == <<expiration, now>>

\* the lock of the store
lkvars == <<mu>>

\* the files of the persistence layer and the keyspace they were taken from
pfvars == <<aof, snapshot, saved>>

\* the history of the authentications
auvars == <<authWith>>

\* The rewrite of the append-only file in progress.
rwvars == <<rewrite>>

\* The idle times of the connections and the goroutine that ends idle ones.
idvars == <<lastActivity, reaper>>

\* The handlers of the subscribing connections.
hdvars == <<handler>>

vars == <<db, currentDB, password, authenticatedConns, tx, pc, last,
          watchDirty, selected, subscribers, channels, patterns, channelSubs,
          patternSubs, messageChan, received, published, placed,
          activeCount, connections, accepting,
          expiration, now,
          mu,
          aof, snapshot, saved,
          authWith,
          rewrite,
          lastActivity, reaper,
          handler>>

-----------------------------------------------------------------------------
(* Bounds of the model *)

\* Longest command queue a connection builds between MULTI and EXEC.
MaxQueue == 2

\* Databases are indexed 0..MaxDB (the program has 16).
MaxDB == 1

\* PUBLISH commands in a behaviour.
MaxPublishes == 2

\* Capacity of a subscriber's inbox (the program's is 1000).
InboxCap == 2

\* The configured maximum of the connection pool (the default is 10000).
MaxConnections == 1

Conns == {"c1", "c2"}

\* The connections that arrive at the listener, for the connection pool.
Arriving == {"n1", "n2", "n3"}

\* The connections whose client subscribes; the clients of Conns publish.
SubConns == {"s1", "s2"}

\* The subscribing connections whose client uses PSUBSCRIBE.
PatternClients == {"s1"}

\* Channel names and patterns, as sequences of characters.
Channels == {<<"a", "1">>, <<"b">>}
Patterns == {<<"a", "*">>}

\* The connections whose client uses MULTI, EXEC, DISCARD, WATCH and UNWATCH;
\* the clients of the other connections send data commands only.
TxClients == {"c1"}
Keys == {"k1", "k2"}
Vals == {"v1"}
Fields == {"f1", "f2"}
DBs == 0..MaxDB

-----------------------------------------------------------------------------
(* Values: store.RedisValue, a tagged variant *)

NoValue == [Type |-> "none"]
StringValue(v) == [Type |-> "string", StringVal |-> v]
HashValue(h) == [Type |-> "hash", HashVal |-> h]
JSONValue(j) == [Type |-> "json", JSONVal |-> j]

\* newDatabase: an empty data map
newDatabase == [k \in Keys |-> NoValue]

getCurrentDB == db[currentDB]

KeyExists(key) == getCurrentDB[key].Type # "none"

\* Database.expiration of a new database: no key has an expiration
NoExpirations == [k \in {} |-> 0]

\* delete(db.expiration, key)
DeleteExpiration(key) ==
    [expiration EXCEPT ![currentDB] = [k \in (DOMAIN @) \ {key} |-> @[k]]]

\* isExpired: the key has an expiration record and the clock is past it
isExpired(key) ==
    /\ key \in DOMAIN expiration[currentDB]
    /\ now > expiration[currentDB][key]

cleanupExpired_Keep(key) == [db |-> db, exp |-> expiration]

\* cleanupExpired: an expired key loses its value and its expiration record;
\* the result is the data and the expiration records after the call
cleanupExpired(key) ==
    IF isExpired(key)
    THEN [db |-> [db EXCEPT ![currentDB][key] = NoValue], exp |-> DeleteExpiration(key)]
    ELSE [db |-> db, exp |-> expiration]

-----------------------------------------------------------------------------
(* Store operations used by the string and key commands.  Set and Del are *)
(* the new value of db after the call, which also deletes the expiration   *)
(* record of the key; the call holds Store.mu throughout.                  *)

Set_Dropped(key, value) == db

Set(key, value) == [db EXCEPT ![currentDB][key] = StringValue(value)]

Del(key) == [db EXCEPT ![currentDB][key] = NoValue]

\* Get applies cleanupExpired and returns (value, exists); exists is false for
\* a missing key and for a key of another type.
Get(key) ==
    LET value == cleanupExpired(key).db[currentDB][key]
    IN  IF value.Type # "string" THEN [val |-> "", exists |-> FALSE]
        ELSE [val |-> value.StringVal, exists |-> TRUE]

\* GetRaw(key): the stored value and whether it exists.
GetRaw(key) == getCurrentDB[key]

-----------------------------------------------------------------------------
(* Transaction contexts *)

NoTransaction == "NoTransaction"
InTransaction == "InTransaction"

EmptyMap == [k \in {} |-> NoValue]

NewTransactionContext ==
    [State |-> NoTransaction, Queue |-> <<>>, WatchedKeys |-> EmptyMap]

IsInTransaction(c) == tx[c].State = InTransaction

StartTransaction(ctx) == [ctx EXCEPT !.State = InTransaction, !.Queue = <<>>]

QueueCommand_Lost(ctx, cmd) == ctx

QueueCommand(ctx, cmd) ==
    IF ctx.State = InTransaction
    THEN [ctx EXCEPT !.Queue = Append(@, cmd)]
    ELSE ctx

ClearTransaction(ctx) == [ctx EXCEPT !.State = NoTransaction, !.Queue = <<>>]

AddWatchedKey(ctx, key, value) ==
    [ctx EXCEPT !.WatchedKeys =
        [k \in (DOMAIN @) \cup {key} |-> IF k = key THEN value ELSE @[k]]]

ClearWatchedKeys(ctx) == [ctx EXCEPT !.WatchedKeys = EmptyMap]

-----------------------------------------------------------------------------
(* Commands.  A command is a record with its name and arguments.           *)

SetCmds == {[name |-> "SET", key |-> k, val |-> v] : k \in Keys, v \in Vals}
GetCmds == {[name |-> "GET", key |-> k] : k \in Keys}
DelCmds == {[name |-> "DEL", key |-> k] : k \in Keys}
UnwatchCmd == [name |-> "UNWATCH"]

\* The commands a client sends between MULTI and EXEC in this model.
QueueCmds == SetCmds \cup DelCmds \cup {UnwatchCmd}

requiresAuth == password # ""

isAuthenticated_Open(c) == TRUE

isAuthenticated(c) == (~requiresAuth) \/ (c \in authenticatedConns)

\* Handlers of the data commands: the new db and the kind of reply.
handleSet(cmd) ==
    [db |-> Set(cmd.key, cmd.val), exp |-> DeleteExpiration(cmd.key), reply |-> "OK"]

handleGet(cmd) ==
    [db |-> cleanupExpired(cmd.key).db, exp |-> cleanupExpired(cmd.key).exp,
     reply |-> IF Get(cmd.key).exists THEN "BULK" ELSE "EMPTY"]

\* handleDel with one key argument: one store.Del call.
handleDel(cmd) ==
    [db |-> Del(cmd.key), exp |-> DeleteExpiration(cmd.key),
     reply |-> IF KeyExists(cmd.key) THEN "INT1" ELSE "INT0"]

\* The switch on the command name that EXEC runs each queued command through.
executeCommandWithoutTransactionCheck(cmd) ==
    CASE cmd.name = "SET" -> handleSet(cmd)
      [] cmd.name = "GET" -> handleGet(cmd)
      [] cmd.name = "DEL" -> handleDel(cmd)
      [] OTHER -> [db |-> db, exp |-> expiration, reply |-> "ERR"]

\* The keys of the current database a data command writes.
Written(cmd) ==
    CASE cmd.name = "SET" -> {cmd.key}
      [] cmd.name = "DEL" -> IF KeyExists(cmd.key) THEN {cmd.key} ELSE {}
      [] OTHER -> {}

\* history: a write to a key marks it for every connection watching it
MarkWritten(ks) ==
    [d \in Conns |-> watchDirty[d] \cup (ks \cap DOMAIN tx[d].WatchedKeys)]

Idle(c) == pc[c].op = "idle"
AtIdle == [op |-> "idle"]

-----------------------------------------------------------------------------
(* Transaction handlers: the new context of the connection and the reply   *)

handleMulti_Restart(c) ==
    [ctx |-> StartTransaction(tx[c]), reply |-> "OK"]

handleMulti(c) ==
    IF IsInTransaction(c)
    THEN [ctx |-> tx[c], reply |-> "ERR"]
    ELSE [ctx |-> StartTransaction(tx[c]), reply |-> "OK"]

handleDiscard(c) ==
    IF ~IsInTransaction(c)
    THEN [ctx |-> tx[c], reply |-> "ERR"]
    ELSE [ctx |-> ClearTransaction(tx[c]), reply |-> "OK"]

handleWatch(c, key) ==
    IF IsInTransaction(c)
    THEN [ctx |-> tx[c], reply |-> "ERR"]
    ELSE [ctx |-> AddWatchedKey(tx[c], key, GetRaw(key)), reply |-> "OK"]

handleUnwatch(c) == [ctx |-> ClearWatchedKeys(tx[c]), reply |-> "OK"]

\* The deferred calls of handleExec: ClearWatchedKeys, then ClearTransaction.
ExecDeferred(ctx) == ClearTransaction(ClearWatchedKeys(ctx))

-----------------------------------------------------------------------------
(* Actions of the dispatcher and the transaction commands                  *)

UnchangedAuth == UNCHANGED <<password, authenticatedConns>>

\* MULTI
Multi(c) ==
    /\ Idle(c) /\ isAuthenticated(c)
    /\ tx' = [tx EXCEPT ![c] = handleMulti(c).ctx]
    /\ last' = [conn |-> c, cmd |-> [name |-> "MULTI"], reply |-> handleMulti(c).reply]
    /\ UNCHANGED <<db, currentDB, pc, watchDirty, selected>>
    /\ UnchangedAuth
    /\ UNCHANGED psvars
    /\ UNCHANGED cpvars
    /\ UNCHANGED exvars
    /\ UNCHANGED lkvars
    /\ UNCHANGED pfvars
    /\ UNCHANGED auvars
    /\ UNCHANGED rwvars
    /\ UNCHANGED idvars
    /\ UNCHANGED hdvars

\* DISCARD
Discard(c) ==
    /\ Idle(c) /\ isAuthenticated(c)
    /\ tx' = [tx EXCEPT ![c] = handleDiscard(c).ctx]
    /\ last' = [conn |-> c, cmd |-> [name |-> "DISCARD"], reply |-> handleDiscard(c).reply]
    /\ watchDirty' = IF handleDiscard(c).reply = "OK"
                     THEN [watchDirty EXCEPT ![c] = {}] ELSE watchDirty
    /\ UNCHANGED <<db, currentDB, pc, selected>>
    /\ UnchangedAuth
    /\ UNCHANGED psvars
    /\ UNCHANGED cpvars
    /\ UNCHANGED exvars
    /\ UNCHANGED lkvars
    /\ UNCHANGED pfvars
    /\ UNCHANGED auvars
    /\ UNCHANGED rwvars
    /\ UNCHANGED idvars
    /\ UNCHANGED hdvars

\* WATCH key
Watch(c, key) ==
    /\ Idle(c) /\ isAuthenticated(c)
    /\ tx' = [tx EXCEPT ![c] = handleWatch(c, key).ctx]
    /\ last' = [conn |-> c, cmd |-> [name |-> "WATCH", key |-> key],
                reply |-> handleWatch(c, key).reply]
    /\ watchDirty' = IF handleWatch(c, key).reply = "OK"
                     THEN [watchDirty EXCEPT ![c] = @ \ {key}] ELSE watchDirty
    /\ UNCHANGED <<db, currentDB, pc, selected>>
    /\ UnchangedAuth
    /\ UNCHANGED psvars
    /\ UNCHANGED cpvars
    /\ UNCHANGED exvars
    /\ UNCHANGED lkvars
    /\ UNCHANGED pfvars
    /\ UNCHANGED auvars
    /\ UNCHANGED rwvars
    /\ UNCHANGED idvars
    /\ UNCHANGED hdvars

\* UNWATCH outside a transaction
Unwatch(c) ==
    /\ Idle(c) /\ isAuthenticated(c)
    /\ ~IsInTransaction(c)
    /\ tx' = [tx EXCEPT ![c] = handleUnwatch(c).ctx]
    /\ last' = [conn |-> c, cmd |-> UnwatchCmd, reply |-> handleUnwatch(c).reply]
    /\ watchDirty' = [watchDirty EXCEPT ![c] = {}]
    /\ UNCHANGED <<db, currentDB, pc, selected>>
    /\ UnchangedAuth
    /\ UNCHANGED psvars
    /\ UNCHANGED cpvars
    /\ UNCHANGED exvars
    /\ UNCHANGED lkvars
    /\ UNCHANGED pfvars
    /\ UNCHANGED auvars
    /\ UNCHANGED rwvars
    /\ UNCHANGED idvars
    /\ UNCHANGED hdvars

\* The queue gate of the dispatcher: a command other than EXEC, DISCARD, MULTI
\* and WATCH that arrives while the connection is Queuing.
QueueGate(c, cmd) ==
    /\ Idle(c) /\ isAuthenticated(c)
    /\ IsInTransaction(c)
    /\ Len(tx[c].Queue) < MaxQueue
    /\ tx' = [tx EXCEPT ![c] = QueueCommand(@, cmd)]
    /\ last' = [conn |-> c, cmd |-> cmd, reply |-> "QUEUED"]
    /\ UNCHANGED <<db, currentDB, pc, watchDirty, selected>>
    /\ UnchangedAuth
    /\ UNCHANGED psvars
    /\ UNCHANGED cpvars
    /\ UNCHANGED exvars
    /\ UNCHANGED lkvars
    /\ UNCHANGED pfvars
    /\ UNCHANGED auvars
    /\ UNCHANGED rwvars
    /\ UNCHANGED idvars
    /\ UNCHANGED hdvars

\* A data command that runs directly (one store call).
Direct(c, cmd) ==
    /\ Idle(c) /\ isAuthenticated(c)
    /\ ~IsInTransaction(c)
    /\ LET r == executeCommandWithoutTransactionCheck(cmd)
       IN  /\ db' = r.db /\ expiration' = r.exp
           /\ last' = [conn |-> c, cmd |-> cmd, reply |-> r.reply]
    /\ watchDirty' = MarkWritten(Written(cmd))
    /\ UNCHANGED <<currentDB, tx, pc, selected>>
    /\ UnchangedAuth
    /\ UNCHANGED psvars
    /\ UNCHANGED cpvars
    /\ UNCHANGED now
    /\ UNCHANGED lkvars
    /\ UNCHANGED pfvars
    /\ UNCHANGED auvars
    /\ UNCHANGED rwvars
    /\ UNCHANGED idvars
    /\ UNCHANGED hdvars

\* EXEC, entry: the checks, the copy of the queue.  With an empty queue the
\* handler returns at once.
ExecBegin(c) ==
    /\ Idle(c) /\ isAuthenticated(c)
    /\ IF ~IsInTransaction(c)
       THEN /\ last' = [conn |-> c, cmd |-> [name |-> "EXEC"], reply |-> "ERR"]
            /\ UNCHANGED <<tx, pc, watchDirty>>
       ELSE IF Len(tx[c].Queue) = 0
       THEN /\ last' = [conn |-> c, cmd |-> [name |-> "EXEC"], reply |-> "ARRAY"]
            /\ tx' = [tx EXCEPT ![c] = ExecDeferred(@)]
            /\ watchDirty' = [watchDirty EXCEPT ![c] = {}]
            /\ UNCHANGED pc
       ELSE /\ last' = [conn |-> c, cmd |-> [name |-> "EXEC"], reply |-> "none"]
            /\ pc' = [pc EXCEPT ![c] = [op |-> "EXEC", i |-> 1]]
            /\ UNCHANGED <<tx, watchDirty>>
    /\ UNCHANGED <<db, currentDB, selected>>
    /\ UnchangedAuth
    /\ UNCHANGED psvars
    /\ UNCHANGED cpvars
    /\ UNCHANGED exvars
    /\ UNCHANGED lkvars
    /\ UNCHANGED pfvars
    /\ UNCHANGED auvars
    /\ UNCHANGED rwvars
    /\ UNCHANGED idvars
    /\ UNCHANGED hdvars

\* EXEC, one iteration of the loop over the queued commands; after the last
\* one the deferred calls run and the array reply is written.
ExecStep(c) ==
    /\ pc[c].op = "EXEC"
    /\ LET i == pc[c].i
           cmd == tx[c].Queue[i]
           r == executeCommandWithoutTransactionCheck(cmd)
           marked == MarkWritten(Written(cmd))
       IN  /\ db' = r.db /\ expiration' = r.exp
           /\ IF i = Len(tx[c].Queue)
              THEN /\ pc' = [pc EXCEPT ![c] = AtIdle]
                   /\ tx' = [tx EXCEPT ![c] = ExecDeferred(@)]
                   /\ watchDirty' = [marked EXCEPT ![c] = {}]
                   /\ last' = [conn |-> c, cmd |-> [name |-> "EXEC"], reply |-> "ARRAY"]
              ELSE /\ pc' = [pc EXCEPT ![c] = [op |-> "EXEC", i |-> i + 1]]
                   /\ watchDirty' = marked
                   /\ last' = [conn |-> c, cmd |-> [name |-> "EXEC"], reply |-> "none"]
                   /\ UNCHANGED tx
    /\ UNCHANGED <<currentDB, selected>>
    /\ UnchangedAuth
    /\ UNCHANGED psvars
    /\ UNCHANGED cpvars
    /\ UNCHANGED now
    /\ UNCHANGED lkvars
    /\ UNCHANGED pfvars
    /\ UNCHANGED auvars
    /\ UNCHANGED rwvars
    /\ UNCHANGED idvars
    /\ UNCHANGED hdvars

-----------------------------------------------------------------------------
(* Specification of the transaction commands: two connections, no password *)

\* No rewrite of the append-only file has been started.
NoRewrite == [step |-> "idle", temp |-> <<>>, acked |-> {}]

NoCmd == [name |-> "none"]

InitCommon ==
    /\ db = [n \in DBs |-> newDatabase]
    /\ currentDB = 0
    /\ authenticatedConns = {}
    /\ tx = [c \in Conns |-> NewTransactionContext]
    /\ pc = [c \in Conns |-> AtIdle]
    /\ last = [conn |-> "none", cmd |-> NoCmd, reply |-> "none"]
    /\ watchDirty = [c \in Conns |-> {}]
    /\ selected = [c \in Conns |-> 0]
    /\ subscribers = {}
    /\ channels = [s \in SubConns |-> {}]
    /\ patterns = [s \in SubConns |-> {}]
    /\ channelSubs = [ch \in Channels |-> {}]
    /\ patternSubs = [p \in Patterns |-> {}]
    /\ messageChan = [s \in SubConns |-> <<>>]
    /\ received = [s \in SubConns |-> <<>>]
    /\ published = 0
    /\ placed = [m \in 1..MaxPublishes |-> 0]
    /\ activeCount = 0
    /\ expiration = [n \in DBs |-> NoExpirations]
    /\ now = 0
    /\ mu = "none"
    /\ aof = <<>>
    /\ snapshot = [none |-> TRUE]
    /\ saved = [none |-> TRUE]
    /\ authWith = [c \in Conns |-> {}]
    /\ rewrite = NoRewrite
    /\ lastActivity = [n \in Arriving |-> 0]
    /\ reaper = [step |-> "idle", toRemove |-> {}]
    /\ handler = [s \in SubConns |-> AtIdle]
    /\ connections = {}
    /\ accepting = [n \in Arriving |-> "new"]

InitTx == InitCommon /\ password = ""

NextTx ==
    \/ \E c \in TxClients :
        \/ Multi(c)
        \/ Discard(c)
        \/ \E k \in Keys : Watch(c, k)
        \/ Unwatch(c)
        \/ \E cmd \in QueueCmds : QueueGate(c, cmd)
        \/ ExecBegin(c)
        \/ ExecStep(c)
    \/ \E c \in Conns, cmd \in SetCmds \cup GetCmds \cup DelCmds : Direct(c, cmd)

SpecTx == InitTx /\ [][NextTx]_vars

-----------------------------------------------------------------------------
(* Claims about transactions, checked under SpecTx                         *)

TxGateNames == {"EXEC", "DISCARD", "MULTI", "WATCH"}
DataNames == {"SET", "GET", "DEL"}

\* C1: when a key watched by a connection was written after the WATCH, the
\* connection's EXEC replies with the null array, changes nothing in the
\* keyspace and discards the queue.
C1_ExecAbortsOnWrittenWatch ==
    [][\A c \in Conns :
          (Idle(c) /\ IsInTransaction(c) /\ watchDirty[c] # {}
              /\ last'.conn = c /\ last'.cmd.name = "EXEC")
          => (last'.reply = "NULL-ARRAY" /\ db' = db
              /\ tx'[c].Queue = <<>> /\ pc'[c] = AtIdle)]_vars

\* Some of the commands queued by a have been applied by its EXEC, others not.
ExecPartial(a) == pc[a].op = "EXEC" /\ pc[a].i > 1

\* C2: while an EXEC has applied some of its queued commands and not the
\* others, no other connection's command reads or writes the keyspace.
C2_ExecAtomic ==
    [][\A a \in Conns :
          ExecPartial(a)
          => ~(\E b \in Conns \ {a} :
                  /\ last'.conn = b
                  /\ last'.cmd.name \in DataNames
                  /\ last'.reply # "QUEUED")]_vars

\* C6: a command other than EXEC, DISCARD, MULTI and WATCH that arrives while
\* the connection is Queuing is appended to the queue, answered QUEUED and not
\* executed: the keyspace is unchanged.
C6_QueuedNotExecuted ==
    [][\A c \in Conns :
          (Idle(c) /\ IsInTransaction(c)
              /\ last'.conn = c /\ last'.cmd.name \notin TxGateNames)
          => (/\ last'.reply = "QUEUED"
              /\ tx'[c].Queue = Append(tx[c].Queue, last'.cmd)
              /\ tx'[c].State = InTransaction
              /\ db' = db)]_vars

\* a SET was queued behind another command and its key is still absent
C6_Witness ==
    \E c \in Conns :
        /\ IsInTransaction(c) /\ Len(tx[c].Queue) = 2
        /\ last.conn = c /\ last.reply = "QUEUED"
        /\ last.cmd.name = "SET" /\ tx[c].Queue[2] = last.cmd
        /\ ~KeyExists(last.cmd.key)

\* C7: after EXEC and after DISCARD the connection is Idle, its queue is empty
\* and its watched set is empty.
C7_TerminalClearsAll ==
    \A c \in Conns :
        (last.conn = c /\ last.cmd.name \in {"EXEC", "DISCARD"}
            /\ last.reply \in {"OK", "ARRAY", "NULL-ARRAY"})
        => (tx[c] = NewTransactionContext /\ Idle(c))

\* C8: MULTI and WATCH while Queuing, EXEC and DISCARD while Idle are answered
\* with an error and leave the transaction state, the queue and the watched set
\* as they were.
C8_RejectedLeaveState ==
    [][\A c \in Conns :
          (Idle(c) /\ last'.conn = c
              /\ \/ (last'.cmd.name \in {"MULTI", "WATCH"} /\ IsInTransaction(c))
                 \/ (last'.cmd.name \in {"EXEC", "DISCARD"} /\ ~IsInTransaction(c)))
          => (last'.reply = "ERR" /\ tx'[c] = tx[c] /\ pc'[c] = pc[c])]_vars

\* a nested MULTI was rejected and the queue and the watched keys are kept
C8_Witness ==
    \E c \in Conns :
        /\ last.conn = c /\ last.cmd.name = "MULTI" /\ last.reply = "ERR"
        /\ IsInTransaction(c) /\ Len(tx[c].Queue) > 0
        /\ DOMAIN tx[c].WatchedKeys # {}

-----------------------------------------------------------------------------
(* Commands whose handler makes more than one store call: multi-field      *)
(* HSET, JSON.SET with NX or XX, DEL with several keys.  Each store call   *)
(* takes and releases Store.mu on its own.                                 *)

Exists(key) == cleanupExpired(key).db[currentDB][key].Type # "none"

EmptyHash == [f \in {} |-> "v1"]

\* HSet: the new db and the returned flag (true when the field is new)
HSet(key, field, value) ==
    LET redisValue == getCurrentDB[key]
    IN  IF redisValue.Type = "none"
        THEN [db |-> [db EXCEPT ![currentDB][key] =
                         HashValue([f \in {field} |-> value])],
              ok |-> TRUE]
        ELSE IF redisValue.Type # "hash"
        THEN [db |-> db, ok |-> FALSE]
        ELSE LET hash == redisValue.HashVal
             IN  [db |-> [db EXCEPT ![currentDB][key] =
                             HashValue([f \in (DOMAIN hash) \cup {field} |->
                                          IF f = field THEN value ELSE hash[f]])],
                  ok |-> field \notin DOMAIN hash]

HGetAll(key) ==
    LET value == getCurrentDB[key]
    IN  IF value.Type # "hash" THEN EmptyHash ELSE value.HashVal

\* HMSet: the new db and the returned flag (false on a key of another type)
HMSet(key, fieldValues) ==
    LET value == getCurrentDB[key]
        hash == IF value.Type = "none" THEN EmptyHash ELSE value.HashVal
    IN  IF value.Type \notin {"none", "hash"}
        THEN [db |-> db, ok |-> FALSE]
        ELSE [db |-> [db EXCEPT ![currentDB][key] =
                         HashValue([f \in (DOMAIN hash) \cup (DOMAIN fieldValues) |->
                                      IF f \in DOMAIN fieldValues
                                      THEN fieldValues[f] ELSE hash[f]])],
              ok |-> TRUE]

\* JSONSet at the root path: the key is overwritten whatever it held
JSONSet(key, value) == [db EXCEPT ![currentDB][key] = JSONValue(value)]

IntReply(n) ==
    CASE n = 0 -> "INT0" [] n = 1 -> "INT1" [] n = 2 -> "INT2" [] OTHER -> "INTn"

HSetCmds ==
    {[name |-> "HSET", key |-> k, fields |-> [f \in F |-> v]] :
        k \in Keys, F \in (SUBSET Fields) \ {{}}, v \in Vals}
JSONSetCmds ==
    {[name |-> "JSON.SET", key |-> k, val |-> v, nx |-> o = "NX", xx |-> o = "XX"] :
        k \in Keys, v \in Vals, o \in {"NX", "XX", "none"}}
MultiDelCmds ==
    {[name |-> "DEL", keys |-> ks] : ks \in {<<"k1", "k2">>, <<"k2", "k1">>}}

UnchangedTx == UNCHANGED <<currentDB, tx, watchDirty, selected>>

\* HSET key field value: one store.HSet call
HSetOne(c, cmd) ==
    /\ Idle(c) /\ isAuthenticated(c) /\ ~IsInTransaction(c)
    /\ Cardinality(DOMAIN cmd.fields) = 1
    /\ LET field == CHOOSE f \in DOMAIN cmd.fields : TRUE
           r == HSet(cmd.key, field, cmd.fields[field])
       IN  /\ db' = r.db
           /\ last' = [conn |-> c, cmd |-> cmd,
                       reply |-> IF r.ok THEN "INT1" ELSE "INT0"]
    /\ UNCHANGED pc
    /\ UnchangedTx /\ UnchangedAuth
    /\ UNCHANGED psvars
    /\ UNCHANGED cpvars
    /\ UNCHANGED exvars
    /\ UNCHANGED lkvars
    /\ UNCHANGED pfvars
    /\ UNCHANGED auvars
    /\ UNCHANGED rwvars
    /\ UNCHANGED idvars
    /\ UNCHANGED hdvars

\* HSET with several fields, first store call: HGetAll, then the count of the
\* fields of the command that the hash read does not have
HSetRead(c, cmd) ==
    /\ Idle(c) /\ isAuthenticated(c) /\ ~IsInTransaction(c)
    /\ Cardinality(DOMAIN cmd.fields) > 1
    /\ LET existingHash == HGetAll(cmd.key)
           newFields == Cardinality((DOMAIN cmd.fields) \ DOMAIN existingHash)
       IN  pc' = [pc EXCEPT ![c] = [op |-> "HSET", cmd |-> cmd, newFields |-> newFields]]
    /\ last' = [conn |-> c, cmd |-> cmd, reply |-> "none"]
    /\ UNCHANGED db
    /\ UnchangedTx /\ UnchangedAuth
    /\ UNCHANGED psvars
    /\ UNCHANGED cpvars
    /\ UNCHANGED exvars
    /\ UNCHANGED lkvars
    /\ UNCHANGED pfvars
    /\ UNCHANGED auvars
    /\ UNCHANGED rwvars
    /\ UNCHANGED idvars
    /\ UNCHANGED hdvars

\* HSET with several fields, second store call: HMSet, then the reply
HSetWrite(c) ==
    /\ pc[c].op = "HSET"
    /\ LET cmd == pc[c].cmd
           r == HMSet(cmd.key, cmd.fields)
       IN  /\ db' = r.db
           /\ last' = [conn |-> c, cmd |-> cmd,
                       reply |-> IF r.ok THEN IntReply(pc[c].newFields) ELSE "WRONGTYPE"]
    /\ pc' = [pc EXCEPT ![c] = AtIdle]
    /\ UnchangedTx /\ UnchangedAuth
    /\ UNCHANGED psvars
    /\ UNCHANGED cpvars
    /\ UNCHANGED exvars
    /\ UNCHANGED lkvars
    /\ UNCHANGED pfvars
    /\ UNCHANGED auvars
    /\ UNCHANGED rwvars
    /\ UNCHANGED idvars
    /\ UNCHANGED hdvars

\* JSON.SET key $ value [NX|XX], first store call: Exists and the NX/XX test
JSONSetCheck(c, cmd) ==
    /\ Idle(c) /\ isAuthenticated(c) /\ ~IsInTransaction(c)
    /\ LET exists == Exists(cmd.key)
       IN  IF (cmd.nx /\ exists) \/ (cmd.xx /\ ~exists)
           THEN /\ last' = [conn |-> c, cmd |-> cmd, reply |-> "NULL"]
                /\ UNCHANGED pc
           ELSE /\ last' = [conn |-> c, cmd |-> cmd, reply |-> "none"]
                /\ pc' = [pc EXCEPT ![c] = [op |-> "JSON.SET", cmd |-> cmd]]
    /\ UNCHANGED db
    /\ UnchangedTx /\ UnchangedAuth
    /\ UNCHANGED psvars
    /\ UNCHANGED cpvars
    /\ UNCHANGED exvars
    /\ UNCHANGED lkvars
    /\ UNCHANGED pfvars
    /\ UNCHANGED auvars
    /\ UNCHANGED rwvars
    /\ UNCHANGED idvars
    /\ UNCHANGED hdvars

\* JSON.SET, second store call: JSONSet, then the reply
JSONSetWrite(c) ==
    /\ pc[c].op = "JSON.SET"
    /\ db' = JSONSet(pc[c].cmd.key, pc[c].cmd.val)
    /\ last' = [conn |-> c, cmd |-> pc[c].cmd, reply |-> "OK"]
    /\ pc' = [pc EXCEPT ![c] = AtIdle]
    /\ UnchangedTx /\ UnchangedAuth
    /\ UNCHANGED psvars
    /\ UNCHANGED cpvars
    /\ UNCHANGED exvars
    /\ UNCHANGED lkvars
    /\ UNCHANGED pfvars
    /\ UNCHANGED auvars
    /\ UNCHANGED rwvars
    /\ UNCHANGED idvars
    /\ UNCHANGED hdvars

\* DEL key key: the first iteration of the loop, one store.Del call
DelStart(c, cmd) ==
    /\ Idle(c) /\ isAuthenticated(c) /\ ~IsInTransaction(c)
    /\ db' = Del(cmd.keys[1])
    /\ pc' = [pc EXCEPT ![c] = [op |-> "DEL", cmd |-> cmd, i |-> 2,
                                deleted |-> IF KeyExists(cmd.keys[1]) THEN 1 ELSE 0]]
    /\ last' = [conn |-> c, cmd |-> cmd, reply |-> "none"]
    /\ UnchangedTx /\ UnchangedAuth
    /\ UNCHANGED psvars
    /\ UNCHANGED cpvars
    /\ UNCHANGED exvars
    /\ UNCHANGED lkvars
    /\ UNCHANGED pfvars
    /\ UNCHANGED auvars
    /\ UNCHANGED rwvars
    /\ UNCHANGED idvars
    /\ UNCHANGED hdvars

\* DEL, a further iteration; after the last key the count is the reply
DelNext(c) ==
    /\ pc[c].op = "DEL"
    /\ LET cmd == pc[c].cmd
           i == pc[c].i
           deleted == pc[c].deleted + (IF KeyExists(cmd.keys[i]) THEN 1 ELSE 0)
       IN  /\ db' = Del(cmd.keys[i])
           /\ IF i = Len(cmd.keys)
              THEN /\ pc' = [pc EXCEPT ![c] = AtIdle]
                   /\ last' = [conn |-> c, cmd |-> cmd, reply |-> IntReply(deleted)]
              ELSE /\ pc' = [pc EXCEPT ![c] = [@ EXCEPT !.i = i + 1, !.deleted = deleted]]
                   /\ last' = [conn |-> c, cmd |-> cmd, reply |-> "none"]
    /\ UnchangedTx /\ UnchangedAuth
    /\ UNCHANGED psvars
    /\ UNCHANGED cpvars
    /\ UNCHANGED exvars
    /\ UNCHANGED lkvars
    /\ UNCHANGED pfvars
    /\ UNCHANGED auvars
    /\ UNCHANGED rwvars
    /\ UNCHANGED idvars
    /\ UNCHANGED hdvars

InitCmd == InitCommon /\ password = ""

NextCmd ==
    \E c \in Conns :
        \/ \E cmd \in SetCmds : Direct(c, cmd)
        \/ \E cmd \in HSetCmds : HSetOne(c, cmd)
        \/ \E cmd \in HSetCmds : HSetRead(c, cmd)
        \/ HSetWrite(c)
        \/ \E cmd \in JSONSetCmds : JSONSetCheck(c, cmd)
        \/ JSONSetWrite(c)
        \/ \E cmd \in MultiDelCmds : DelStart(c, cmd)
        \/ DelNext(c)

SpecCmd == InitCmd /\ [][NextCmd]_vars

\* C3: the reads and the writes of one command are not interleaved with
\* another connection's command: a JSON.SET with NX (with XX) that answers OK
\* wrote a key that was absent (present) when it was written; a multi-field
\* HSET answers the number of its fields that the hash did not have when it
\* was written; when a DEL answers, every key it names is absent.
C3_CommandAtomic ==
    [][\A c \in Conns :
          (last'.conn = c /\ last'.reply # "none" /\ pc[c].op # "idle")
          => LET cmd == last'.cmd
             IN  /\ (cmd.name = "JSON.SET" /\ cmd.nx) => ~Exists(cmd.key)
                 /\ (cmd.name = "JSON.SET" /\ cmd.xx) => Exists(cmd.key)
                 /\ (cmd.name = "HSET" /\ last'.reply # "WRONGTYPE")
                      => last'.reply =
                           IntReply(Cardinality((DOMAIN cmd.fields) \ DOMAIN HGetAll(cmd.key)))
                 /\ cmd.name = "DEL"
                      => \A i \in 1..Len(cmd.keys) :
                            db'[currentDB][cmd.keys[i]].Type = "none"]_vars

-----------------------------------------------------------------------------
(* SELECT, and the end of a connection                                     *)

\* SelectDB: the new Store.currentDB and the returned flag
SelectDB(dbIndex) ==
    IF dbIndex < 0 \/ dbIndex > MaxDB
    THEN [currentDB |-> currentDB, ok |-> FALSE]
    ELSE [currentDB |-> dbIndex, ok |-> TRUE]

handleSelect(dbIndex) ==
    [currentDB |-> SelectDB(dbIndex).currentDB,
     reply |-> IF SelectDB(dbIndex).ok THEN "OK" ELSE "ERR"]

SelectCmds == {[name |-> "SELECT", index |-> n] : n \in 0..(MaxDB + 1)}

\* SELECT n
Select(c, cmd) ==
    /\ Idle(c) /\ isAuthenticated(c) /\ ~IsInTransaction(c)
    /\ currentDB' = handleSelect(cmd.index).currentDB
    /\ last' = [conn |-> c, cmd |-> cmd, reply |-> handleSelect(cmd.index).reply]
    /\ selected' = IF handleSelect(cmd.index).reply = "OK"
                   THEN [selected EXCEPT ![c] = cmd.index] ELSE selected
    /\ UNCHANGED <<db, tx, pc, watchDirty>>
    /\ UnchangedAuth
    /\ UNCHANGED psvars
    /\ UNCHANGED cpvars
    /\ UNCHANGED exvars
    /\ UNCHANGED lkvars
    /\ UNCHANGED pfvars
    /\ UNCHANGED auvars
    /\ UNCHANGED rwvars
    /\ UNCHANGED idvars
    /\ UNCHANGED hdvars

\* The connection ends and the client connects again: handleConnection
\* returns, its deferred call forgets the authentication, and a new
\* connection is accepted.
Disconnect(c) ==
    /\ Idle(c) /\ ~IsInTransaction(c)
    /\ authenticatedConns' = authenticatedConns \ {c}
    /\ selected' = [selected EXCEPT ![c] = 0]
    /\ last' = [conn |-> "none", cmd |-> NoCmd, reply |-> "none"]
    /\ UNCHANGED <<db, currentDB, password, tx, pc, watchDirty>>
    /\ UNCHANGED psvars
    /\ UNCHANGED cpvars
    /\ UNCHANGED exvars
    /\ UNCHANGED lkvars
    /\ UNCHANGED pfvars
    /\ authWith' = [authWith EXCEPT ![c] = {}]
    /\ UNCHANGED rwvars
    /\ UNCHANGED idvars
    /\ UNCHANGED hdvars

InitSel == InitCommon /\ password = ""

NextSel ==
    \E c \in Conns :
        \/ \E cmd \in SelectCmds : Select(c, cmd)
        \/ \E cmd \in SetCmds \cup GetCmds \cup DelCmds : Direct(c, cmd)
        \/ Disconnect(c)

SpecSel == InitSel /\ [][NextSel]_vars

\* C4: the selected database is per connection: a command of a connection
\* operates on the database of that connection's last SELECT, database 0 for
\* a new connection; a SET writes its key there and leaves the other
\* databases as they were, and a SELECT of one connection leaves the database
\* of the others alone.
C4_SelectPerConnection ==
    [][\A c \in Conns :
          (last'.conn = c /\ last'.cmd.name = "SET")
          => /\ db'[selected[c]][last'.cmd.key] = StringValue(last'.cmd.val)
             /\ \A n \in DBs \ {selected[c]} : db'[n] = db[n]]_vars

-----------------------------------------------------------------------------
(* Authentication: AUTH, HELLO, PING, QUIT and the gate of the dispatcher  *)

ServerPassword == "pw"
Passwords == {ServerPassword, "bad"}

authenticate(c) == authenticatedConns \cup {c}

\* handleAuth: the new set of authenticated connections and the reply
handleAuth(c, providedPassword) ==
    IF ~requiresAuth THEN [auth |-> authenticatedConns, reply |-> "ERR"]
    ELSE IF providedPassword = password
    THEN [auth |-> authenticate(c), reply |-> "OK"]
    ELSE [auth |-> authenticatedConns, reply |-> "WRONGPASS"]

\* handleHello with the AUTH option (opt is the password) or without (opt is
\* "none"): the new set of authenticated connections and the reply
handleHello(c, opt) ==
    IF opt # "none"
    THEN IF ~requiresAuth THEN [auth |-> authenticatedConns, reply |-> "ERR"]
         ELSE IF opt # password
         THEN [auth |-> authenticatedConns, reply |-> "WRONGPASS"]
         ELSE [auth |-> authenticate(c), reply |-> "HELLO"]
    ELSE IF requiresAuth /\ ~isAuthenticated(c)
         THEN [auth |-> authenticatedConns, reply |-> "NOAUTH"]
         ELSE [auth |-> authenticatedConns, reply |-> "HELLO"]

AuthCmds == {[name |-> "AUTH", pw |-> p] : p \in Passwords}
HelloCmds == {[name |-> "HELLO", opt |-> o] : o \in Passwords \cup {"none"}}

\* The commands behind the authentication gate in this model.
GatedCmds ==
    SetCmds \cup DelCmds \cup SelectCmds
        \cup {[name |-> "MULTI"], [name |-> "EXEC"], [name |-> "DISCARD"]}
        \cup {[name |-> "WATCH", key |-> k] : k \in Keys}

UnchangedData == UNCHANGED <<db, currentDB, tx, pc, watchDirty, selected>>

\* AUTH password
Auth(c, cmd) ==
    /\ Idle(c)
    /\ authenticatedConns' = handleAuth(c, cmd.pw).auth
    /\ last' = [conn |-> c, cmd |-> cmd, reply |-> handleAuth(c, cmd.pw).reply]
    /\ UNCHANGED password
    /\ UnchangedData
    /\ UNCHANGED psvars
    /\ UNCHANGED cpvars
    /\ UNCHANGED exvars
    /\ UNCHANGED lkvars
    /\ UNCHANGED pfvars
    /\ authWith' = IF handleAuth(c, cmd.pw).reply = "OK"
                   THEN [authWith EXCEPT ![c] = @ \cup {cmd.pw}] ELSE authWith
    /\ UNCHANGED rwvars
    /\ UNCHANGED idvars
    /\ UNCHANGED hdvars

\* PING
Ping(c) ==
    /\ Idle(c)
    /\ last' = [conn |-> c, cmd |-> [name |-> "PING"], reply |-> "PONG"]
    /\ UnchangedAuth /\ UnchangedData
    /\ UNCHANGED psvars
    /\ UNCHANGED cpvars
    /\ UNCHANGED exvars
    /\ UNCHANGED lkvars
    /\ UNCHANGED pfvars
    /\ UNCHANGED auvars
    /\ UNCHANGED rwvars
    /\ UNCHANGED idvars
    /\ UNCHANGED hdvars

\* HELLO [AUTH user password]
Hello(c, cmd) ==
    /\ Idle(c)
    /\ authenticatedConns' = handleHello(c, cmd.opt).auth
    /\ last' = [conn |-> c, cmd |-> cmd, reply |-> handleHello(c, cmd.opt).reply]
    /\ UNCHANGED password
    /\ UnchangedData
    /\ UNCHANGED psvars
    /\ UNCHANGED cpvars
    /\ UNCHANGED exvars
    /\ UNCHANGED lkvars
    /\ UNCHANGED pfvars
    /\ authWith' = IF cmd.opt # "none" /\ handleHello(c, cmd.opt).reply = "HELLO"
                   THEN [authWith EXCEPT ![c] = @ \cup {cmd.opt}] ELSE authWith
    /\ UNCHANGED rwvars
    /\ UNCHANGED idvars
    /\ UNCHANGED hdvars

\* QUIT: the reply, then the connection is closed
Quit(c) ==
    /\ Idle(c) /\ ~IsInTransaction(c)
    /\ authenticatedConns' = authenticatedConns \ {c}
    /\ selected' = [selected EXCEPT ![c] = 0]
    /\ last' = [conn |-> c, cmd |-> [name |-> "QUIT"], reply |-> "OK"]
    /\ UNCHANGED <<db, currentDB, password, tx, pc, watchDirty>>
    /\ UNCHANGED psvars
    /\ UNCHANGED cpvars
    /\ UNCHANGED exvars
    /\ UNCHANGED lkvars
    /\ UNCHANGED pfvars
    /\ authWith' = [authWith EXCEPT ![c] = {}]
    /\ UNCHANGED rwvars
    /\ UNCHANGED idvars
    /\ UNCHANGED hdvars

\* The check in front of every command other than the exempt ones
NotAuthenticated(c, cmd) ==
    /\ Idle(c)
    /\ ~isAuthenticated(c)
    /\ last' = [conn |-> c, cmd |-> cmd, reply |-> "NOAUTH"]
    /\ UnchangedAuth /\ UnchangedData
    /\ UNCHANGED psvars
    /\ UNCHANGED cpvars
    /\ UNCHANGED exvars
    /\ UNCHANGED lkvars
    /\ UNCHANGED pfvars
    /\ UNCHANGED auvars
    /\ UNCHANGED rwvars
    /\ UNCHANGED idvars
    /\ UNCHANGED hdvars

InitAuth == InitCommon /\ password = ServerPassword

NextAuth ==
    \/ \E c \in Conns :
        \/ \E cmd \in AuthCmds : Auth(c, cmd)
        \/ Ping(c)
        \/ \E cmd \in HelloCmds : Hello(c, cmd)
        \/ Quit(c)
        \/ \E cmd \in GatedCmds : NotAuthenticated(c, cmd)
        \/ \E cmd \in SetCmds \cup DelCmds : Direct(c, cmd)
        \/ \E cmd \in SelectCmds : Select(c, cmd)
    \/ \E c \in TxClients :
        \/ Multi(c)
        \/ Discard(c)

SpecAuth == InitAuth /\ [][NextAuth]_vars

ExemptNames == {"AUTH", "HELLO", "PING", "QUIT"}

-----------------------------------------------------------------------------
(* Publish/subscribe.  Subscribe and PSubscribe hold PubSubSystem.mu       *)
(* exclusively; Publish holds it shared, so that several Publish calls run *)
(* at the same time and each send to an inbox is a step of its own.        *)

\* The regular expression redisPatternToRegex builds, matched against the
\* whole channel name: * is any sequence, ? any one character.
RECURSIVE Match(_, _)
Match(pattern, channel) ==
    IF pattern = <<>> THEN channel = <<>>
    ELSE IF Head(pattern) = "*"
    THEN Match(Tail(pattern), channel)
            \/ (channel # <<>> /\ Match(pattern, Tail(channel)))
    ELSE /\ channel # <<>>
         /\ (Head(pattern) = "?" \/ Head(pattern) = Head(channel))
         /\ Match(Tail(pattern), Tail(channel))

Message(channel, id) ==
    [type |-> "message", channel |-> channel, pattern |-> <<>>, id |-> id]
PMessage(pattern, channel, id) ==
    [type |-> "pmessage", channel |-> channel, pattern |-> pattern, id |-> id]

\* No Publish holds the lock shared: the condition for taking it exclusively.
NoReader == \A c \in Conns : pc[c].op # "PUBLISH"

\* The non-blocking send of Publish: whether the inbox takes the message
CanSend(s) == Len(messageChan[s]) < InboxCap

SelectReady_NoDefault(s) == CanSend(s)

\* Whether the select of Publish can proceed: it has a default case, so it
\* does whatever the state of the inbox
SelectReady(s) == TRUE

Recipients_CountAttempts(recipients, sent) == recipients + 1

\* The count Publish returns: one more for a send that succeeded
Recipients(recipients, sent) == IF sent THEN recipients + 1 ELSE recipients

\* The sends of a Publish that are still to do: the subscribers of the
\* channel, then the (pattern, subscriber) pairs whose pattern matches.
PublishTargets(channel) ==
    [exact |-> channelSubs[channel],
     pats |-> {ps \in Patterns \X SubConns :
                  ps[2] \in patternSubs[ps[1]] /\ Match(ps[1], channel)}]

\* SUBSCRIBE channel
Subscribe(s, channel) ==
    /\ NoReader
    /\ subscribers' = subscribers \cup {s}
    /\ channels' = [channels EXCEPT ![s] = @ \cup {channel}]
    /\ channelSubs' = [channelSubs EXCEPT ![channel] = @ \cup {s}]
    /\ last' = [conn |-> s, cmd |-> [name |-> "SUBSCRIBE"], reply |-> "subscribe"]
    /\ UNCHANGED <<patterns, patternSubs, messageChan, received, published, placed>>
    /\ UNCHANGED pc /\ UNCHANGED kvvars
    /\ UNCHANGED cpvars
    /\ UNCHANGED exvars
    /\ UNCHANGED lkvars
    /\ UNCHANGED pfvars
    /\ UNCHANGED auvars
    /\ UNCHANGED rwvars
    /\ UNCHANGED idvars
    /\ UNCHANGED hdvars

\* PSUBSCRIBE pattern
PSubscribe(s, pattern) ==
    /\ NoReader
    /\ subscribers' = subscribers \cup {s}
    /\ patterns' = [patterns EXCEPT ![s] = @ \cup {pattern}]
    /\ patternSubs' = [patternSubs EXCEPT ![pattern] = @ \cup {s}]
    /\ last' = [conn |-> s, cmd |-> [name |-> "PSUBSCRIBE"], reply |-> "psubscribe"]
    /\ UNCHANGED <<channels, channelSubs, messageChan, received, published, placed>>
    /\ UNCHANGED pc /\ UNCHANGED kvvars
    /\ UNCHANGED cpvars
    /\ UNCHANGED exvars
    /\ UNCHANGED lkvars
    /\ UNCHANGED pfvars
    /\ UNCHANGED auvars
    /\ UNCHANGED rwvars
    /\ UNCHANGED idvars
    /\ UNCHANGED hdvars

\* PUBLISH channel message: Publish takes the lock shared; with nobody to
\* send to it returns 0 at once.
PublishBegin(c, channel) ==
    /\ Idle(c) /\ isAuthenticated(c) /\ ~IsInTransaction(c)
    /\ published < MaxPublishes
    /\ published' = published + 1
    /\ LET cmd == [name |-> "PUBLISH", channel |-> channel, id |-> published + 1]
           targets == PublishTargets(channel)
       IN  IF targets.exact = {} /\ targets.pats = {}
           THEN /\ last' = [conn |-> c, cmd |-> cmd, reply |-> "INT", n |-> 0]
                /\ UNCHANGED pc
           ELSE /\ last' = [conn |-> c, cmd |-> cmd, reply |-> "none"]
                /\ pc' = [pc EXCEPT ![c] = [op |-> "PUBLISH", cmd |-> cmd,
                                            exact |-> targets.exact,
                                            pats |-> targets.pats,
                                            recipients |-> 0]]
    /\ UNCHANGED <<subscribers, channels, patterns, channelSubs, patternSubs,
                   messageChan, received, placed>>
    /\ UNCHANGED kvvars
    /\ UNCHANGED cpvars
    /\ UNCHANGED exvars
    /\ UNCHANGED lkvars
    /\ UNCHANGED pfvars
    /\ UNCHANGED auvars
    /\ UNCHANGED rwvars
    /\ UNCHANGED idvars
    /\ UNCHANGED hdvars

\* One non-blocking send of a Publish in progress; after the last one the
\* count is the reply.
PublishSendTo(c, s, msg, exact, pats) ==
    LET sent == CanSend(s)
        recipients == Recipients(pc[c].recipients, sent)
    IN  /\ SelectReady(s)
        /\ messageChan' = IF sent THEN [messageChan EXCEPT ![s] = Append(@, msg)]
                          ELSE messageChan
        /\ placed' = IF sent THEN [placed EXCEPT ![msg.id] = @ + 1] ELSE placed
        /\ IF exact = {} /\ pats = {}
           THEN /\ pc' = [pc EXCEPT ![c] = AtIdle]
                /\ last' = [conn |-> c, cmd |-> pc[c].cmd, reply |-> "INT",
                            n |-> recipients]
           ELSE /\ pc' = [pc EXCEPT ![c] = [@ EXCEPT !.exact = exact, !.pats = pats,
                                                     !.recipients = recipients]]
                /\ last' = [conn |-> c, cmd |-> pc[c].cmd, reply |-> "none"]

PublishSend(c) ==
    /\ pc[c].op = "PUBLISH"
    /\ LET cmd == pc[c].cmd
       IN  IF pc[c].exact # {}
           THEN \E s \in pc[c].exact :
                   PublishSendTo(c, s, Message(cmd.channel, cmd.id),
                                 pc[c].exact \ {s}, pc[c].pats)
           ELSE \E ps \in pc[c].pats :
                   PublishSendTo(c, ps[2], PMessage(ps[1], cmd.channel, cmd.id),
                                 {}, pc[c].pats \ {ps})
    /\ UNCHANGED <<subscribers, channels, patterns, channelSubs, patternSubs,
                   received, published>>
    /\ UNCHANGED kvvars
    /\ UNCHANGED cpvars
    /\ UNCHANGED exvars
    /\ UNCHANGED lkvars
    /\ UNCHANGED pfvars
    /\ UNCHANGED auvars
    /\ UNCHANGED rwvars
    /\ UNCHANGED idvars
    /\ UNCHANGED hdvars

\* messageLoop: take the head of the inbox and write it to the connection
Deliver(s) ==
    /\ s \in subscribers
    /\ messageChan[s] # <<>>
    /\ received' = [received EXCEPT ![s] = Append(@, Head(messageChan[s]))]
    /\ messageChan' = [messageChan EXCEPT ![s] = Tail(@)]
    /\ UNCHANGED <<subscribers, channels, patterns, channelSubs, patternSubs,
                   published, placed>>
    /\ UNCHANGED <<pc, last>> /\ UNCHANGED kvvars
    /\ UNCHANGED cpvars
    /\ UNCHANGED exvars
    /\ UNCHANGED lkvars
    /\ UNCHANGED pfvars
    /\ UNCHANGED auvars
    /\ UNCHANGED rwvars
    /\ UNCHANGED idvars
    /\ UNCHANGED hdvars

InitPubSub == InitCommon /\ password = ""

NextPubSub ==
    \/ \E s \in SubConns :
        \/ \E channel \in Channels : Subscribe(s, channel)
        \/ Deliver(s)
    \/ \E s \in PatternClients, pattern \in Patterns : PSubscribe(s, pattern)
    \/ \E c \in Conns :
        \/ \E channel \in Channels : PublishBegin(c, channel)
        \/ PublishSend(c)

SpecPubSub == InitPubSub /\ [][NextPubSub]_vars

\* message a comes before message b in what a subscriber received
ReceivedBefore(s, a, b) ==
    \E i, j \in 1..Len(received[s]) :
        i < j /\ received[s][i].id = a /\ received[s][j].id = b

\* C9: two messages on one channel that two subscribers both receive are
\* received in the same order by both.
C9_SameOrderForAll ==
    \A s \in SubConns : \A t \in SubConns \ {s} :
        \A i, j \in 1..Len(received[s]) :
            (/\ i < j
             /\ received[s][i].channel = received[s][j].channel
             /\ received[s][i].id # received[s][j].id)
            => ~ReceivedBefore(t, received[s][j].id, received[s][i].id)

\* C10: the number a PUBLISH replies is the number of messages this publish
\* placed into inboxes; a message dropped on a full inbox is not counted.
C10_PublishCountsPlaced ==
    [][\A c \in Conns :
          (last'.conn = c /\ last'.cmd.name = "PUBLISH" /\ last'.reply = "INT")
          => last'.n = placed'[last'.cmd.id]]_vars

\* a PUBLISH with three sends to do replied 1: two were dropped on a full inbox
C10_Witness ==
    /\ last.cmd.name = "PUBLISH" /\ last.reply = "INT" /\ last.n = 1
    /\ Cardinality(PublishTargets(last.cmd.channel).exact)
         + Cardinality(PublishTargets(last.cmd.channel).pats) = 3
    /\ \E s \in SubConns : Len(messageChan[s]) = InboxCap

\* What was sent to a subscriber's inbox so far, delivered or not
InboxHistory(s) == received[s] \o messageChan[s]

Copies(s, id) ==
    Cardinality({i \in 1..Len(InboxHistory(s)) : InboxHistory(s)[i].id = id})

\* C11: one PUBLISH enqueues one message per recipient subscriber, also for a
\* subscriber that has the channel and a pattern matching it: no subscriber
\* is sent two copies of one published message.
C11_OnePerRecipient ==
    \A s \in SubConns : \A id \in 1..MaxPublishes : Copies(s, id) <= 1

\* The scheduler runs a Publish that can take a step; nothing is assumed of
\* the subscribers' messageLoop.
SpecPubSubFair ==
    InitPubSub /\ [][NextPubSub]_vars /\ \A c \in Conns : WF_vars(PublishSend(c))

\* C12: a PUBLISH in progress completes, however slowly the subscribers
\* drain their inboxes: a full inbox drops the message and does not block.
C12_PublishCompletes ==
    \A c \in Conns : (pc[c].op = "PUBLISH") ~> (pc[c].op = "idle")

\* a PUBLISH completed although it found an inbox full, and nothing was ever
\* delivered to any subscriber
C12_Witness ==
    /\ last.cmd.name = "PUBLISH" /\ last.reply = "INT"
    /\ placed[last.cmd.id] < Cardinality(PublishTargets(last.cmd.channel).exact)
                              + Cardinality(PublishTargets(last.cmd.channel).pats)
    /\ \A s \in SubConns : received[s] = <<>>

-----------------------------------------------------------------------------
(* Subscriber mode: the commands of a connection that has subscriptions    *)

IsSubscribed_ChannelsOnly(s) == channels[s] # {}

\* Subscriber.IsSubscribed
IsSubscribed(s) == channels[s] # {} \/ patterns[s] # {}

isSubscriberConnection(s) == s \in subscribers /\ IsSubscribed(s)

\* The commands handleSubscriberCommand has a case for
SubscriberNames ==
    {"SUBSCRIBE", "UNSUBSCRIBE", "PSUBSCRIBE", "PUNSUBSCRIBE", "PING", "QUIT"}

\* UNSUBSCRIBE channel
Unsubscribe(s, channel) ==
    /\ NoReader
    /\ IF s \in subscribers /\ channel \in channels[s]
       THEN /\ channels' = [channels EXCEPT ![s] = @ \ {channel}]
            /\ channelSubs' = [channelSubs EXCEPT ![channel] = @ \ {s}]
       ELSE UNCHANGED <<channels, channelSubs>>
    /\ last' = [conn |-> s, cmd |-> [name |-> "UNSUBSCRIBE"], reply |-> "unsubscribe"]
    /\ UNCHANGED <<subscribers, patterns, patternSubs, messageChan, received,
                   published, placed>>
    /\ UNCHANGED pc /\ UNCHANGED kvvars
    /\ UNCHANGED cpvars
    /\ UNCHANGED exvars
    /\ UNCHANGED lkvars
    /\ UNCHANGED pfvars
    /\ UNCHANGED auvars
    /\ UNCHANGED rwvars
    /\ UNCHANGED idvars
    /\ UNCHANGED hdvars

\* PUNSUBSCRIBE pattern
PUnsubscribe(s, pattern) ==
    /\ NoReader
    /\ IF s \in subscribers /\ pattern \in patterns[s]
       THEN /\ patterns' = [patterns EXCEPT ![s] = @ \ {pattern}]
            /\ patternSubs' = [patternSubs EXCEPT ![pattern] = @ \ {s}]
       ELSE UNCHANGED <<patterns, patternSubs>>
    /\ last' = [conn |-> s, cmd |-> [name |-> "PUNSUBSCRIBE"], reply |-> "punsubscribe"]
    /\ UNCHANGED <<subscribers, channels, channelSubs, messageChan, received,
                   published, placed>>
    /\ UNCHANGED pc /\ UNCHANGED kvvars
    /\ UNCHANGED cpvars
    /\ UNCHANGED exvars
    /\ UNCHANGED lkvars
    /\ UNCHANGED pfvars
    /\ UNCHANGED auvars
    /\ UNCHANGED rwvars
    /\ UNCHANGED idvars
    /\ UNCHANGED hdvars

\* PING in subscriber mode
SubscriberPing(s) ==
    /\ isSubscriberConnection(s)
    /\ last' = [conn |-> s, cmd |-> [name |-> "PING"], reply |-> "pong"]
    /\ UNCHANGED pc /\ UNCHANGED kvvars /\ UNCHANGED psvars
    /\ UNCHANGED cpvars
    /\ UNCHANGED exvars
    /\ UNCHANGED lkvars
    /\ UNCHANGED pfvars
    /\ UNCHANGED auvars
    /\ UNCHANGED rwvars
    /\ UNCHANGED idvars
    /\ UNCHANGED hdvars

\* handleSubscriberCommand, default case: any other command in subscriber mode
SubscriberRefused(s, cmd) ==
    /\ isSubscriberConnection(s)
    /\ cmd.name \notin SubscriberNames
    /\ last' = [conn |-> s, cmd |-> cmd, reply |-> "ERR"]
    /\ UNCHANGED pc /\ UNCHANGED kvvars /\ UNCHANGED psvars
    /\ UNCHANGED cpvars
    /\ UNCHANGED exvars
    /\ UNCHANGED lkvars
    /\ UNCHANGED pfvars
    /\ UNCHANGED auvars
    /\ UNCHANGED rwvars
    /\ UNCHANGED idvars
    /\ UNCHANGED hdvars

\* A data command of a connection that is not in subscriber mode
PlainCommand(s, cmd) ==
    /\ ~isSubscriberConnection(s)
    /\ isAuthenticated(s)
    /\ LET r == executeCommandWithoutTransactionCheck(cmd)
       IN  /\ db' = r.db
           /\ last' = [conn |-> s, cmd |-> cmd, reply |-> r.reply]
    /\ UNCHANGED <<currentDB, password, authenticatedConns, tx, watchDirty, selected>>
    /\ UNCHANGED pc /\ UNCHANGED psvars
    /\ UNCHANGED cpvars
    /\ UNCHANGED exvars
    /\ UNCHANGED lkvars
    /\ UNCHANGED pfvars
    /\ UNCHANGED auvars
    /\ UNCHANGED rwvars
    /\ UNCHANGED idvars
    /\ UNCHANGED hdvars

InitSubMode == InitCommon /\ password = ""

NextSubMode ==
    \/ \E s \in SubConns :
        \/ \E channel \in Channels : Subscribe(s, channel)
        \/ \E channel \in Channels : Unsubscribe(s, channel)
        \/ SubscriberPing(s)
        \/ \E cmd \in SetCmds \cup GetCmds : SubscriberRefused(s, cmd)
        \/ \E cmd \in SetCmds \cup GetCmds : PlainCommand(s, cmd)
    \/ \E s \in PatternClients, pattern \in Patterns :
        \/ PSubscribe(s, pattern)
        \/ PUnsubscribe(s, pattern)

SpecSubMode == InitSubMode /\ [][NextSubMode]_vars

\* C13: a connection whose channel set or pattern set is not empty executes
\* only SUBSCRIBE, UNSUBSCRIBE, PSUBSCRIBE, PUNSUBSCRIBE, PING and QUIT: any
\* other command is answered with an error and changes nothing.
C13_SubscriberModeGate ==
    [][\A s \in SubConns :
          ((channels[s] # {} \/ patterns[s] # {})
              /\ last'.conn = s /\ last'.cmd.name \notin SubscriberNames)
          => (last'.reply = "ERR" /\ UNCHANGED kvvars /\ UNCHANGED psvars
              /\ UNCHANGED pc)]_vars

\* a SET was refused on a connection that has a pattern and no channel, and
\* the key is absent
C13_Witness ==
    \E s \in SubConns :
        /\ channels[s] = {} /\ patterns[s] # {}
        /\ last.conn = s /\ last.cmd.name = "SET" /\ last.reply = "ERR"
        /\ ~KeyExists(last.cmd.key)

-----------------------------------------------------------------------------
(* The connection pool.  AcceptConnection reads activeCount, registers the *)
(* connection under ConnectionPool.mu and then adds one to activeCount:    *)
(* three steps.  Each arriving connection is accepted by its own goroutine.*)

othervars == <<kvvars, psvars, exvars, lkvars, pfvars, auvars, rwvars, hdvars, pc, last>>

\* AcceptConnection: the load of activeCount and the test against the maximum
AcceptCheck(n) ==
    /\ accepting[n] = "new"
    /\ LET currentCount == activeCount
       IN  accepting' = [accepting EXCEPT ![n] =
               IF currentCount >= MaxConnections THEN "refused" ELSE "checked"]
    /\ UNCHANGED <<activeCount, connections>>
    /\ UNCHANGED othervars
    /\ UNCHANGED idvars

\* AcceptConnection: cp.connections[connID] = clientConn, under cp.mu
AcceptInsert(n) ==
    /\ accepting[n] = "checked"
    /\ connections' = connections \cup {n}
    /\ accepting' = [accepting EXCEPT ![n] = "inserted"]
    /\ UNCHANGED activeCount
    /\ UNCHANGED othervars
    /\ lastActivity' = [lastActivity EXCEPT ![n] = now]
    /\ UNCHANGED reaper

\* AcceptConnection: atomic.AddInt64(&cp.activeCount, 1), and the return
AcceptCount(n) ==
    /\ accepting[n] = "inserted"
    /\ activeCount' = activeCount + 1
    /\ accepting' = [accepting EXCEPT ![n] = "accepted"]
    /\ UNCHANGED connections
    /\ UNCHANGED othervars
    /\ UNCHANGED idvars

\* RemoveConnection, when the accepted connection ends
RemoveConnection(n) ==
    /\ accepting[n] = "accepted"
    /\ IF n \in connections
       THEN /\ connections' = connections \ {n}
            /\ activeCount' = activeCount - 1
       ELSE UNCHANGED <<activeCount, connections>>
    /\ accepting' = [accepting EXCEPT ![n] = "closed"]
    /\ UNCHANGED othervars
    /\ UNCHANGED idvars

\* A refused or closed connection is gone; the client connects again.
Arrive(n) ==
    /\ accepting[n] \in {"refused", "closed"}
    /\ accepting' = [accepting EXCEPT ![n] = "new"]
    /\ UNCHANGED <<activeCount, connections>>
    /\ UNCHANGED othervars
    /\ UNCHANGED idvars

InitPool == InitCommon /\ password = ""

NextPool ==
    \E n \in Arriving :
        \/ AcceptCheck(n)
        \/ AcceptInsert(n)
        \/ AcceptCount(n)
        \/ RemoveConnection(n)
        \/ Arrive(n)

SpecPool == InitPool /\ [][NextPool]_vars

\* C14: the number of connections accepted at one time never exceeds the
\* configured maximum, also when several are being accepted at the same time.
C14_AtMostMaxConnections ==
    /\ Cardinality(connections) <= MaxConnections
    /\ activeCount <= MaxConnections

-----------------------------------------------------------------------------
(* Expiration.  A key may carry an instant in Database.expiration; nothing  *)
(* runs in the background, an expired key is removed by cleanupExpired in   *)
(* the operations that call it.  The clock advances by whole seconds.       *)

MaxTime == 3
MaxListLen == 2

Members == {"m1", "m2"}
ExpKeys == {"k1"}
ExpireSeconds == {1}

ListValue(l) == [Type |-> "list", ListVal |-> l]
SetValue(m) == [Type |-> "set", SetVal |-> m]

RECURSIVE Reverse(_)
Reverse(l) == IF l = <<>> THEN <<>> ELSE Append(Reverse(Tail(l)), Head(l))

\* LPush: no cleanupExpired; a missing key gets the values as given, a key of
\* another type returns -1, a list gets the values prepended in reverse
LPush(key, values) ==
    LET value == getCurrentDB[key]
    IN  IF value.Type = "none"
        THEN [db |-> [db EXCEPT ![currentDB][key] = ListValue(values)],
              exp |-> expiration, ret |-> Len(values)]
        ELSE IF value.Type # "list"
        THEN [db |-> db, exp |-> expiration, ret |-> 0 - 1]
        ELSE LET newList == Reverse(values) \o value.ListVal
             IN  [db |-> [db EXCEPT ![currentDB][key] = ListValue(newList)],
                  exp |-> expiration, ret |-> Len(newList)]

\* SAdd: no cleanupExpired; a missing key gets a new set, a key of another
\* type returns 0, the count is the number of members that were new
SAdd(key, members) ==
    LET value == getCurrentDB[key]
    IN  IF value.Type = "none"
        THEN [db |-> [db EXCEPT ![currentDB][key] = SetValue(members)],
              exp |-> expiration, ret |-> Cardinality(members)]
        ELSE IF value.Type # "set"
        THEN [db |-> db, exp |-> expiration, ret |-> 0]
        ELSE [db |-> [db EXCEPT ![currentDB][key] = SetValue(value.SetVal \cup members)],
              exp |-> expiration, ret |-> Cardinality(members \ value.SetVal)]

\* Expire: no cleanupExpired; false for a key with no data, else the
\* expiration becomes now + seconds
Expire(key, seconds) ==
    IF ~KeyExists(key)
    THEN [db |-> db, exp |-> expiration, ret |-> FALSE]
    ELSE [db |-> db,
          exp |-> [expiration EXCEPT ![currentDB] =
                       [k \in (DOMAIN @) \cup {key} |->
                           IF k = key THEN now + seconds ELSE @[k]]],
          ret |-> TRUE]

\* TTL: cleanupExpired first; -2 for a missing key, -1 without expiration,
\* else the remaining whole seconds (-2 when negative)
TTL(key) ==
    LET st == cleanupExpired(key)
    IN  IF st.db[currentDB][key].Type = "none"
        THEN [db |-> st.db, exp |-> st.exp, ret |-> 0 - 2]
        ELSE IF key \in DOMAIN st.exp[currentDB]
        THEN LET remaining == st.exp[currentDB][key] - now
             IN  [db |-> st.db, exp |-> st.exp,
                  ret |-> IF remaining < 0 THEN 0 - 2 ELSE remaining]
        ELSE [db |-> st.db, exp |-> st.exp, ret |-> 0 - 1]

\* Move: no cleanupExpired; fails for the current database, a missing source
\* key or an existing target key; the value and its expiration move
Move(key, destDB) ==
    IF destDB = currentDB
    THEN [db |-> db, exp |-> expiration, ret |-> FALSE]
    ELSE IF db[currentDB][key].Type = "none"
    THEN [db |-> db, exp |-> expiration, ret |-> FALSE]
    ELSE IF db[destDB][key].Type # "none"
    THEN [db |-> db, exp |-> expiration, ret |-> FALSE]
    ELSE [db |-> [db EXCEPT ![destDB][key] = db[currentDB][key],
                            ![currentDB][key] = NoValue],
          exp |-> [n \in DBs |->
                     IF n = destDB /\ key \in DOMAIN expiration[currentDB]
                     THEN [k \in (DOMAIN expiration[n]) \cup {key} |->
                              IF k = key THEN expiration[currentDB][key]
                              ELSE expiration[n][k]]
                     ELSE IF n = currentDB
                     THEN [k \in (DOMAIN expiration[n]) \ {key} |-> expiration[n][k]]
                     ELSE expiration[n]],
          ret |-> TRUE]

\* an integer reply
EncodeInteger(n) ==
    CASE n = 0 - 2 -> "INT-2" [] n = 0 - 1 -> "INT-1" [] OTHER -> IntReply(n)

handleLPush(cmd) ==
    LET r == LPush(cmd.key, cmd.values)
    IN  [db |-> r.db, exp |-> r.exp,
         reply |-> IF r.ret = 0 - 1 THEN "WRONGTYPE" ELSE EncodeInteger(r.ret)]

handleSAdd(cmd) ==
    LET r == SAdd(cmd.key, cmd.members)
    IN  [db |-> r.db, exp |-> r.exp, reply |-> EncodeInteger(r.ret)]

handleExpire(cmd) ==
    LET r == Expire(cmd.key, cmd.seconds)
    IN  [db |-> r.db, exp |-> r.exp, reply |-> IF r.ret THEN "INT1" ELSE "INT0"]

handleTTL(cmd) ==
    LET r == TTL(cmd.key)
    IN  [db |-> r.db, exp |-> r.exp, reply |-> EncodeInteger(r.ret)]

handleMove(cmd) ==
    LET r == Move(cmd.key, cmd.db)
    IN  [db |-> r.db, exp |-> r.exp, reply |-> IF r.ret THEN "INT1" ELSE "INT0"]

\* Append: cleanupExpired first; a string grows, anything else (a missing key
\* or a key of another type) is replaced by the value as a new string
Append_(key, value) ==
    LET st == cleanupExpired(key)
        existing == st.db[currentDB][key]
    IN  IF existing.Type = "string"
        THEN [db |-> [st.db EXCEPT ![currentDB][key] = StringValue(existing.StringVal \o value)],
              exp |-> st.exp, ret |-> Len(existing.StringVal \o value)]
        ELSE [db |-> [st.db EXCEPT ![currentDB][key] = StringValue(value)],
              exp |-> st.exp, ret |-> Len(value)]

\* SMove: false unless the source is a set holding the member; the member
\* leaves the source (an emptied source is deleted with its expiration); a
\* missing destination becomes a new set, a destination of another type is
\* left as it is, and the call returns true
SMove(source, destination, member) ==
    LET sourceValue == getCurrentDB[source]
    IN  IF sourceValue.Type # "set" \/ member \notin sourceValue.SetVal
        THEN [db |-> db, exp |-> expiration, ret |-> FALSE]
        ELSE LET rest == sourceValue.SetVal \ {member}
                 removed == IF rest = {}
                            THEN [db |-> [db EXCEPT ![currentDB][source] = NoValue],
                                  exp |-> DeleteExpiration(source)]
                            ELSE [db |-> [db EXCEPT ![currentDB][source] = SetValue(rest)],
                                  exp |-> expiration]
                 destValue == removed.db[currentDB][destination]
             IN  IF destValue.Type = "none"
                 THEN [db |-> [removed.db EXCEPT ![currentDB][destination] = SetValue({member})],
                       exp |-> removed.exp, ret |-> TRUE]
                 ELSE IF destValue.Type # "set"
                 THEN [db |-> removed.db, exp |-> removed.exp, ret |-> TRUE]
                 ELSE [db |-> [removed.db EXCEPT ![currentDB][destination] =
                                   SetValue(destValue.SetVal \cup {member})],
                       exp |-> removed.exp, ret |-> TRUE]

\* cleanupExpired applied to each of the keys
CleanupKeys(ks) ==
    [db |-> [db EXCEPT ![currentDB] =
                 [k \in Keys |-> IF k \in ks /\ isExpired(k) THEN NoValue ELSE @[k]]],
     exp |-> [expiration EXCEPT ![currentDB] =
                 [k \in (DOMAIN @) \ {j \in ks : isExpired(j)} |-> @[k]]]]

Range(keys) == {keys[i] : i \in 1..Len(keys)}

\* the members of the set at a key, after cleanupExpired; none for a missing
\* key and for a key of another type
SetAt(st, key) ==
    IF st.db[currentDB][key].Type = "set" THEN st.db[currentDB][key].SetVal ELSE {}

\* SUnion: the union of the sets at the keys
SUnion(keys) ==
    LET st == CleanupKeys(Range(keys))
    IN  [db |-> st.db, exp |-> st.exp,
         members |-> UNION {SetAt(st, k) : k \in Range(keys)}]

\* SInter: empty as soon as a key is missing or is no set; the keys after
\* that one, and after an empty intermediate result, are not looked at
RECURSIVE SInterFrom(_, _, _)
SInterFrom(keys, i, result) ==
    IF i > Len(keys) THEN [members |-> result, seen |-> i - 1]
    ELSE LET st == CleanupKeys({keys[i]})
         IN  IF st.db[currentDB][keys[i]].Type # "set"
             THEN [members |-> {}, seen |-> i]
             ELSE IF result \cap SetAt(st, keys[i]) = {}
             THEN [members |-> {}, seen |-> i]
             ELSE SInterFrom(keys, i + 1, result \cap SetAt(st, keys[i]))

SInter(keys) ==
    LET first == CleanupKeys({keys[1]})
    IN  IF first.db[currentDB][keys[1]].Type # "set"
        THEN [db |-> first.db, exp |-> first.exp, members |-> {}]
        ELSE LET r == SInterFrom(keys, 2, SetAt(first, keys[1]))
                 st == CleanupKeys({keys[i] : i \in 1..r.seen})
             IN  [db |-> st.db, exp |-> st.exp, members |-> r.members]

\* SDiff: the first set without the members of the others
SDiff(keys) ==
    LET first == CleanupKeys({keys[1]})
    IN  IF first.db[currentDB][keys[1]].Type # "set"
        THEN [db |-> first.db, exp |-> first.exp, members |-> {}]
        ELSE LET st == CleanupKeys(Range(keys))
             IN  [db |-> st.db, exp |-> st.exp,
                  members |-> SetAt(st, keys[1]) \
                                  UNION {SetAt(st, keys[i]) : i \in 2..Len(keys)}]

\* the part of SInterStore, SUnionStore and SDiffStore after the members are
\* known: an empty result deletes the destination, any other result replaces
\* it; the expiration of the destination is deleted in both cases
StoreResult(destination, r) ==
    IF r.members = {}
    THEN [db |-> [r.db EXCEPT ![currentDB][destination] = NoValue],
          exp |-> [r.exp EXCEPT ![currentDB] =
                       [k \in (DOMAIN @) \ {destination} |-> @[k]]],
          ret |-> 0]
    ELSE [db |-> [r.db EXCEPT ![currentDB][destination] = SetValue(r.members)],
          exp |-> [r.exp EXCEPT ![currentDB] =
                       [k \in (DOMAIN @) \ {destination} |-> @[k]]],
          ret |-> Cardinality(r.members)]

SInterStore(destination, keys) == StoreResult(destination, SInter(keys))
SUnionStore(destination, keys) == StoreResult(destination, SUnion(keys))
SDiffStore(destination, keys) == StoreResult(destination, SDiff(keys))

handleAppend(cmd) ==
    LET r == Append_(cmd.key, cmd.val)
    IN  [db |-> r.db, exp |-> r.exp, reply |-> EncodeInteger(r.ret)]

handleSMove(cmd) ==
    LET r == SMove(cmd.source, cmd.dest, cmd.member)
    IN  [db |-> r.db, exp |-> r.exp, reply |-> IF r.ret THEN "INT1" ELSE "INT0"]

handleSUnion(cmd) ==
    LET r == SUnion(cmd.keys)
    IN  [db |-> r.db, exp |-> r.exp, reply |-> [array |-> r.members]]

\* FlushDB: new data and expiration maps for the current database
FlushDB ==
    [db |-> [db EXCEPT ![currentDB] = newDatabase],
     exp |-> [expiration EXCEPT ![currentDB] = NoExpirations]]

handleFlushDB(cmd) == [db |-> FlushDB.db, exp |-> FlushDB.exp, reply |-> "OK"]

\* handleFlushAll calls store.FlushDB
handleFlushAll(cmd) == [db |-> FlushDB.db, exp |-> FlushDB.exp, reply |-> "OK"]

\* LPop: cleanupExpired first; the first element is taken off, and the key is
\* deleted from the data when the list becomes empty
LPop(key) ==
    LET st == cleanupExpired(key)
        value == st.db[currentDB][key]
    IN  IF value.Type # "list" \/ Len(value.ListVal) = 0
        THEN [db |-> st.db, exp |-> st.exp, ok |-> FALSE]
        ELSE LET newList == Tail(value.ListVal)
             IN  [db |-> [st.db EXCEPT ![currentDB][key] =
                             IF Len(newList) = 0 THEN NoValue ELSE ListValue(newList)],
                  exp |-> st.exp, ok |-> TRUE]

\* SRem: no cleanupExpired; the members are taken out, and the key is deleted
\* from the data when the set becomes empty
SRem(key, members) ==
    LET value == getCurrentDB[key]
    IN  IF value.Type # "set"
        THEN [db |-> db, exp |-> expiration, ret |-> 0]
        ELSE LET newSet == value.SetVal \ members
             IN  [db |-> [db EXCEPT ![currentDB][key] =
                             IF newSet = {} THEN NoValue ELSE SetValue(newSet)],
                  exp |-> expiration,
                  ret |-> Cardinality(value.SetVal \cap members)]

handleLPop(cmd) ==
    LET r == LPop(cmd.key)
    IN  [db |-> r.db, exp |-> r.exp, reply |-> "BULK"]

handleSRem(cmd) ==
    LET r == SRem(cmd.key, cmd.members)
    IN  [db |-> r.db, exp |-> r.exp, reply |-> EncodeInteger(r.ret)]

\* executeCommand: the dispatch on the command name
executeCommand(cmd) ==
    CASE cmd.name = "LPUSH" -> handleLPush(cmd)
      [] cmd.name = "SADD" -> handleSAdd(cmd)
      [] cmd.name = "EXPIRE" -> handleExpire(cmd)
      [] cmd.name = "TTL" -> handleTTL(cmd)
      [] cmd.name = "MOVE" -> handleMove(cmd)
      [] cmd.name = "APPEND" -> handleAppend(cmd)
      [] cmd.name = "SMOVE" -> handleSMove(cmd)
      [] cmd.name = "SUNION" -> handleSUnion(cmd)
      [] cmd.name = "FLUSHDB" -> handleFlushDB(cmd)
      [] cmd.name = "FLUSHALL" -> handleFlushAll(cmd)
      [] cmd.name = "LPOP" -> handleLPop(cmd)
      [] cmd.name = "SREM" -> handleSRem(cmd)
      [] OTHER -> executeCommandWithoutTransactionCheck(cmd)

LPushCmds == {[name |-> "LPUSH", key |-> k, values |-> <<v>>] : k \in Keys, v \in Vals}
SAddCmds ==
    {[name |-> "SADD", key |-> k, members |-> m] : k \in Keys, m \in (SUBSET Members) \ {{}}}
ExpireCmds ==
    {[name |-> "EXPIRE", key |-> k, seconds |-> n] : k \in Keys, n \in ExpireSeconds}
TTLCmds == {[name |-> "TTL", key |-> k] : k \in Keys}
MoveCmds == {[name |-> "MOVE", key |-> k, db |-> n] : k \in Keys, n \in DBs}

\* the commands a client sends about the keys that expire
ExpCmds ==
    {cmd \in SetCmds \cup GetCmds \cup DelCmds \cup LPushCmds \cup SAddCmds
                 \cup ExpireCmds \cup TTLCmds \cup MoveCmds :
        /\ cmd.key \in ExpKeys
        /\ cmd.name = "SADD" => cmd.members = {"m1"}}

MaxStrLen == 4

\* Store.mu is held by no writer: Lock and RLock proceed
Unlocked == mu = "none"

\* One command outside a transaction.  history: last.expired records whether
\* the key's expiration instant had passed when the command arrived.
KeyCommand(c, cmd) ==
    /\ Idle(c) /\ isAuthenticated(c)
    /\ ~IsInTransaction(c)
    /\ Unlocked
    /\ cmd.name = "APPEND" =>
           (getCurrentDB[cmd.key].Type = "string" =>
                Len(getCurrentDB[cmd.key].StringVal) < MaxStrLen)
    /\ cmd.name = "LPUSH" =>
           (getCurrentDB[cmd.key].Type = "list" =>
                Len(getCurrentDB[cmd.key].ListVal) < MaxListLen)
    /\ LET r == executeCommand(cmd)
       IN  /\ db' = r.db /\ expiration' = r.exp
           /\ last' = [conn |-> c, cmd |-> cmd, reply |-> r.reply,
                       expired |-> "key" \in DOMAIN cmd /\ isExpired(cmd.key)]
    /\ UNCHANGED <<currentDB, tx, pc, watchDirty, selected, now>>
    /\ UnchangedAuth
    /\ UNCHANGED psvars
    /\ UNCHANGED cpvars
    /\ UNCHANGED lkvars
    /\ UNCHANGED pfvars
    /\ UNCHANGED auvars
    /\ UNCHANGED rwvars
    /\ UNCHANGED idvars
    /\ UNCHANGED hdvars

\* a second passes
Tick ==
    /\ now < MaxTime
    /\ now' = now + 1
    /\ UNCHANGED <<kvvars, psvars, cpvars, lkvars, pfvars, auvars, rwvars, idvars, hdvars,
                   expiration, pc, last>>

InitExp == InitCommon /\ password = ""

NextExp ==
    \/ \E c \in TxClients : \E cmd \in ExpCmds : KeyCommand(c, cmd)
    \/ Tick

SpecExp == InitExp /\ [][NextExp]_vars

\* what a write command does to a key that is absent: the reply and the value
OnAbsent(cmd) ==
    CASE cmd.name = "LPUSH" ->
             [reply |-> EncodeInteger(Len(cmd.values)), value |-> ListValue(cmd.values)]
      [] cmd.name = "SADD" ->
             [reply |-> EncodeInteger(Cardinality(cmd.members)), value |-> SetValue(cmd.members)]
      [] OTHER -> [reply |-> "INT0", value |-> NoValue]

\* C15: a write command on a key whose expiration instant has passed treats
\* the key as absent: LPUSH and SADD start from an empty collection, EXPIRE
\* and MOVE report the key missing, and the old value and its expiration
\* record are gone afterwards.
C15_WritesApplyExpiration ==
    (last.cmd.name \in {"LPUSH", "SADD", "EXPIRE", "MOVE"} /\ last.expired) =>
        /\ last.reply = OnAbsent(last.cmd).reply
        /\ db[currentDB][last.cmd.key] = OnAbsent(last.cmd).value
        /\ last.cmd.key \notin DOMAIN expiration[currentDB]

-----------------------------------------------------------------------------
(* Sets and type discipline.  SADD, APPEND, SMOVE and SUNION are one        *)
(* critical section each.  SInterStore, SUnionStore and SDiffStore take     *)
(* Store.mu for writing and then call SInter, SUnion or SDiff, which take   *)
(* the same lock for reading.                                               *)

MaxSourceKeys == 2

KeySeqs == UNION {[1..n -> Keys] : n \in 1..MaxSourceKeys}

AppendCmds == {[name |-> "APPEND", key |-> k, val |-> v] : k \in Keys, v \in Vals}
SMoveCmds ==
    {[name |-> "SMOVE", source |-> a, dest |-> b, member |-> m] :
        a \in Keys, b \in Keys, m \in Members}
SUnionCmds == {[name |-> "SUNION", keys |-> ks] : ks \in KeySeqs}
StoreNames == {"SINTERSTORE", "SUNIONSTORE", "SDIFFSTORE"}
StoreCmds ==
    {[name |-> n, dest |-> d, keys |-> ks] : n \in StoreNames, d \in Keys, ks \in KeySeqs}

SetsCmds ==
    SetCmds \cup DelCmds \cup AppendCmds \cup SAddCmds \cup ExpireCmds
        \cup SMoveCmds \cup SUnionCmds

\* sync.RWMutex.RLock proceeds only while no writer holds the lock
RLockReady(writer) == writer = "none"

handleStore(cmd) ==
    LET r == CASE cmd.name = "SINTERSTORE" -> SInterStore(cmd.dest, cmd.keys)
               [] cmd.name = "SUNIONSTORE" -> SUnionStore(cmd.dest, cmd.keys)
               [] OTHER -> SDiffStore(cmd.dest, cmd.keys)
    IN  [db |-> r.db, exp |-> r.exp, reply |-> EncodeInteger(r.ret)]

\* SINTERSTORE, SUNIONSTORE, SDIFFSTORE: the store method takes mu.Lock, then
\* calls the read method, whose mu.RLock waits for the writer to unlock; the
\* writer is the caller itself.  history: pc.expect is what SUNION of the
\* same keys returns on the keyspace the command found.
StoreCommand(c, cmd) ==
    /\ Idle(c) /\ isAuthenticated(c)
    /\ ~IsInTransaction(c)
    /\ Unlocked
    /\ LET writer == c
       IN  IF RLockReady(writer)
           THEN /\ db' = handleStore(cmd).db
                /\ expiration' = handleStore(cmd).exp
                /\ last' = [conn |-> c, cmd |-> cmd, reply |-> handleStore(cmd).reply]
                /\ UNCHANGED <<mu, pc>>
           ELSE /\ mu' = writer
                /\ pc' = [pc EXCEPT ![c] = [op |-> "RLock", cmd |-> cmd,
                                            expect |-> SUnion(cmd.keys).members]]
                /\ last' = [conn |-> c, cmd |-> cmd, reply |-> "none"]
                /\ UNCHANGED <<db, expiration>>
    /\ UNCHANGED <<currentDB, tx, watchDirty, selected, now>>
    /\ UnchangedAuth
    /\ UNCHANGED psvars
    /\ UNCHANGED cpvars
    /\ UNCHANGED pfvars
    /\ UNCHANGED auvars
    /\ UNCHANGED rwvars
    /\ UNCHANGED idvars
    /\ UNCHANGED hdvars

InitSets == InitCommon /\ password = ""

NextSets ==
    \E c \in Conns :
        \/ \E cmd \in SetsCmds : KeyCommand(c, cmd)
        \/ \E cmd \in StoreCmds : StoreCommand(c, cmd)

SpecSets == InitSets /\ [][NextSets]_vars

SpecSetsFair == SpecSets /\ WF_vars(NextSets)

\* the type an operation is declared for
DeclaredType(name) ==
    CASE name = "SADD" -> "set"
      [] name = "APPEND" -> "string"
      [] OTHER -> "none"

\* C17: a command on a key that holds a value of another type than the
\* command's is answered with WRONGTYPE and changes nothing: neither that
\* key nor any other key, nor any expiration.
C17_WrongTypeRejected ==
    [][(/\ last'.cmd.name \in {"SADD", "APPEND"}
        /\ getCurrentDB[last'.cmd.key].Type \notin {"none", DeclaredType(last'.cmd.name)})
       => (/\ last'.reply = "WRONGTYPE"
           /\ db' = db
           /\ expiration' = expiration)]_vars

\* membership of a member in the set at a key of a keyspace
InSet(d, key, member) ==
    d[currentDB][key].Type = "set" /\ member \in d[currentDB][key].SetVal

\* C18: SMOVE either leaves both keys as they were, or the member is in the
\* destination afterwards and (for two different keys) no longer in the
\* source; the member is never in neither set.
C18_SMoveAtomic ==
    [][(last'.cmd.name = "SMOVE")
       => (\/ db' = db
           \/ /\ InSet(db', last'.cmd.dest, last'.cmd.member)
              /\ last'.cmd.source # last'.cmd.dest =>
                     ~InSet(db', last'.cmd.source, last'.cmd.member))]_vars

\* C19: a SINTERSTORE, SUNIONSTORE or SDIFFSTORE whose destination carries an
\* expiration completes, and the destination has no expiration afterwards.
C19_StoreDropsExpiration ==
    \A c \in Conns : \A k \in Keys :
        (/\ pc[c].op = "RLock"
         /\ pc[c].cmd.dest = k
         /\ k \in DOMAIN expiration[currentDB])
        ~> (Idle(c) /\ k \notin DOMAIN expiration[currentDB])

\* C20: a SUNIONSTORE completes, and the set at the destination is then the
\* set SUNION of the same keys returns, also when the destination is one of
\* the keys.
C20_UnionStoreEqualsUnion ==
    \A c \in Conns : \A k \in Keys : \A m \in SUBSET Members :
        (/\ pc[c].op = "RLock"
         /\ pc[c].cmd.name = "SUNIONSTORE"
         /\ pc[c].cmd.dest = k
         /\ pc[c].expect = m)
        ~> (Idle(c) /\ SetAt([db |-> db], k) = m)

-----------------------------------------------------------------------------
(* Streams.  An entry ID is the text "<time>-<seq>"; the model keeps the    *)
(* two numbers that were formatted.  Both are int64 in the program; the     *)
(* sequence number is kept in SeqBits bits here, with the same wrap-around. *)
(* The clock (time.Now().UnixMilli()) may repeat and may go backwards.      *)

SeqBits == 2
MaxStreamLen == 2

MaxSeq == 2 ^ (SeqBits - 1) - 1
StreamKeys == {"k1"}
StreamTimes == 0..1

\* int64 addition
WrapSeq(n) == ((n + 2 ^ (SeqBits - 1)) % (2 ^ SeqBits)) - 2 ^ (SeqBits - 1)

\* the empty string as an ID
NoID == [none |-> TRUE]

\* fmt.Sprintf("%d-%d", time, seq)
FormatID(t, q) == [t |-> t, s |-> q]

\* strings.Split(id, "-") gives two parts only when neither number is
\* written with a minus sign
TwoParts(id) == id.t >= 0 /\ id.s >= 0

\* parseStreamID: (0, 0) unless the text has two parts
parseStreamID(id) == IF TwoParts(id) THEN <<id.t, id.s>> ELSE <<0, 0>>

isValidStreamID(id) == TwoParts(id)

compareStreamIDs(a, b) ==
    LET pa == parseStreamID(a)
        pb == parseStreamID(b)
    IN  IF pa[1] < pb[1] THEN 0 - 1
        ELSE IF pa[1] > pb[1] THEN 1
        ELSE IF pa[2] < pb[2] THEN 0 - 1
        ELSE IF pa[2] > pb[2] THEN 1
        ELSE 0

StreamValue(entries, first, lastID) ==
    [Type |-> "stream", Entries |-> entries, FirstID |-> first, LastID |-> lastID]

NewStream == StreamValue(<<>>, NoID, NoID)

generateStreamID_NoCheck(stream, id) ==
    [ok |-> TRUE, id |-> IF id.kind = "explicit" THEN id.id ELSE FormatID(now, 0)]

\* generateStreamID: "*" takes the clock, "<time>-*" the given time, with the
\* next sequence number when the time is that of the last ID; an explicit
\* ID must compare greater than the last ID and be well formed
generateStreamID(stream, id) ==
    IF id.kind = "auto"
    THEN IF stream.LastID = NoID
         THEN [ok |-> TRUE, id |-> FormatID(now, 0)]
         ELSE LET lastT == parseStreamID(stream.LastID)
              IN  IF now = lastT[1]
                  THEN [ok |-> TRUE, id |-> FormatID(now, WrapSeq(lastT[2] + 1))]
                  ELSE IF now < lastT[1]
                  THEN [ok |-> TRUE, id |-> FormatID(lastT[1], WrapSeq(lastT[2] + 1))]
                  ELSE [ok |-> TRUE, id |-> FormatID(now, 0)]
    ELSE IF id.kind = "partial"
    THEN IF stream.LastID = NoID
         THEN [ok |-> TRUE, id |-> FormatID(id.t, 0)]
         ELSE LET lastT == parseStreamID(stream.LastID)
              IN  IF id.t = lastT[1]
                  THEN [ok |-> TRUE, id |-> FormatID(id.t, WrapSeq(lastT[2] + 1))]
                  ELSE IF id.t < lastT[1]
                  THEN [ok |-> FALSE, err |-> "ERR_ORDER"]
                  ELSE [ok |-> TRUE, id |-> FormatID(id.t, 0)]
    ELSE IF stream.LastID # NoID /\ compareStreamIDs(id.id, stream.LastID) <= 0
    THEN [ok |-> FALSE, err |-> "ERR_ORDER"]
    ELSE IF ~isValidStreamID(id.id)
    THEN [ok |-> FALSE, err |-> "ERR_INVALID"]
    ELSE [ok |-> TRUE, id |-> id.id]

\* the last n entries
LastEntries(entries, n) == SubSeq(entries, Len(entries) - n + 1, Len(entries))

\* XAdd: a missing key gets a new stream before the ID is generated; a key
\* of another type is an error; the entry is appended, then MAXLEN applies
XAdd(key, id, maxLen) ==
    LET value == getCurrentDB[key]
    IN  IF value.Type # "none" /\ value.Type # "stream"
        THEN [db |-> db, reply |-> "WRONGTYPE"]
        ELSE LET stream == IF value.Type = "none" THEN NewStream ELSE value
                 g == generateStreamID(stream, id)
             IN  IF ~g.ok
                 THEN [db |-> [db EXCEPT ![currentDB][key] = stream], reply |-> g.err]
                 ELSE LET entries == Append(stream.Entries, g.id)
                          first == IF stream.FirstID = NoID THEN g.id ELSE stream.FirstID
                          added == StreamValue(entries, first, g.id)
                          kept == IF maxLen > 0 /\ Len(entries) > maxLen
                                  THEN StreamValue(LastEntries(entries, maxLen),
                                                   LastEntries(entries, maxLen)[1], g.id)
                                  ELSE added
                      IN  [db |-> [db EXCEPT ![currentDB][key] = kept], reply |-> "BULK"]

\* XDel: the entries with one of the IDs go; FirstID and LastID follow the
\* entries that remain, both empty when none remains; the key stays
XDel(key, ids) ==
    LET value == getCurrentDB[key]
    IN  IF value.Type # "stream"
        THEN [db |-> db, reply |-> 0]
        ELSE LET newEntries == SelectSeq(value.Entries, LAMBDA e : e \notin ids)
                 stream == IF Len(newEntries) > 0
                           THEN StreamValue(newEntries, newEntries[1],
                                            newEntries[Len(newEntries)])
                           ELSE StreamValue(newEntries, NoID, NoID)
             IN  [db |-> [db EXCEPT ![currentDB][key] = stream],
                  reply |-> Len(value.Entries) - Len(newEntries)]

\* XTrim (exact): the oldest entries beyond maxLen go; LastID is kept
XTrim(key, maxLen) ==
    LET value == getCurrentDB[key]
    IN  IF value.Type # "stream"
        THEN [db |-> db, reply |-> 0]
        ELSE IF maxLen >= Len(value.Entries)
        THEN [db |-> db, reply |-> 0]
        ELSE LET kept == LastEntries(value.Entries, maxLen)
                 stream == StreamValue(kept, IF Len(kept) > 0 THEN kept[1] ELSE NoID,
                                       value.LastID)
             IN  [db |-> [db EXCEPT ![currentDB][key] = stream],
                  reply |-> Len(value.Entries) - maxLen]

ExplicitIDs == {FormatID(t, q) : t \in StreamTimes, q \in 0..MaxSeq}
IDArgs ==
    {[kind |-> "auto"]} \cup {[kind |-> "partial", t |-> t] : t \in StreamTimes}
        \cup {[kind |-> "explicit", id |-> i] : i \in ExplicitIDs}

XAddCmds ==
    {[name |-> "XADD", key |-> k, id |-> i, maxLen |-> m] :
        k \in StreamKeys, i \in IDArgs, m \in 0..1}
XDelCmds == {[name |-> "XDEL", key |-> k, ids |-> {i}] : k \in StreamKeys, i \in ExplicitIDs}
XTrimCmds == {[name |-> "XTRIM", key |-> k, maxLen |-> m] : k \in StreamKeys, m \in 0..1}

handleStream(cmd) ==
    CASE cmd.name = "XADD" ->
             [db |-> XAdd(cmd.key, cmd.id, cmd.maxLen).db,
              reply |-> XAdd(cmd.key, cmd.id, cmd.maxLen).reply]
      [] cmd.name = "XDEL" ->
             [db |-> XDel(cmd.key, cmd.ids).db,
              reply |-> EncodeInteger(XDel(cmd.key, cmd.ids).reply)]
      [] OTHER ->
             [db |-> XTrim(cmd.key, cmd.maxLen).db,
              reply |-> EncodeInteger(XTrim(cmd.key, cmd.maxLen).reply)]

\* the ID a is smaller than the ID b, as numbers
IDLess(a, b) == a.t < b.t \/ (a.t = b.t /\ a.s < b.s)

\* (history) The highest ID XADD has returned for the stream since the record
\* of the last operation was one of a stream command: an XADD that is
\* answered with an ID raises it to that ID when it is higher.
TopReturned(cmd) ==
    LET before == IF "top" \in DOMAIN last THEN last.top ELSE NoID
        id == handleStream(cmd).db[currentDB][cmd.key].LastID
    IN  IF cmd.name = "XADD" /\ handleStream(cmd).reply = "BULK"
        THEN IF before = NoID \/ IDLess(before, id) THEN id ELSE before
        ELSE before

\* XADD, XDEL, XTRIM: one critical section each
StreamCommand(c, cmd) ==
    /\ Idle(c) /\ isAuthenticated(c)
    /\ ~IsInTransaction(c)
    /\ Unlocked
    /\ cmd.name = "XADD" =>
           (getCurrentDB[cmd.key].Type = "stream" =>
                Len(getCurrentDB[cmd.key].Entries) < MaxStreamLen)
    /\ db' = handleStream(cmd).db
    /\ last' = [conn |-> c, cmd |-> cmd, reply |-> handleStream(cmd).reply,
                top |-> TopReturned(cmd)]
    /\ UNCHANGED <<currentDB, tx, pc, watchDirty, selected>>
    /\ UnchangedAuth
    /\ UNCHANGED psvars
    /\ UNCHANGED cpvars
    /\ UNCHANGED exvars
    /\ UNCHANGED lkvars
    /\ UNCHANGED pfvars
    /\ UNCHANGED auvars
    /\ UNCHANGED rwvars
    /\ UNCHANGED idvars
    /\ UNCHANGED hdvars

\* the clock is read at any value: later, the same, or earlier
ClockSet ==
    /\ \E t \in StreamTimes : now' = t
    /\ UNCHANGED <<kvvars, psvars, cpvars, lkvars, pfvars, auvars, rwvars, idvars, hdvars,
                   expiration, pc, last>>

InitStream == InitCommon /\ password = ""

NextStream ==
    \/ \E c \in TxClients :
           \/ \E cmd \in {m \in SetCmds : m.key \in StreamKeys} : KeyCommand(c, cmd)
           \/ \E cmd \in XAddCmds \cup XDelCmds \cup XTrimCmds : StreamCommand(c, cmd)
    \/ ClockSet

SpecStream == InitStream /\ [][NextStream]_vars

\* a collection with no member
IsEmptyCollection(value) ==
    \/ value.Type = "stream" /\ value.Entries = <<>>
    \/ value.Type = "list" /\ value.ListVal = <<>>
    \/ value.Type = "set" /\ value.SetVal = {}
    \/ value.Type = "hash" /\ DOMAIN value.HashVal = {}

\* C21: after any command no key holds an empty list, hash, set or stream;
\* removing the last member makes the key absent.
C21_NoEmptyCollection ==
    \A n \in DBs : \A k \in Keys : ~IsEmptyCollection(db[n][k])

\* C23: in every stream the IDs of the entries are strictly increasing in
\* entry order, as numbers (time, then sequence).
C23_StreamIDsIncreasing ==
    \A n \in DBs : \A k \in Keys :
        db[n][k].Type = "stream" =>
            \A i \in 1..Len(db[n][k].Entries) : \A j \in 1..Len(db[n][k].Entries) :
                i < j =>
                    LET a == db[n][k].Entries[i]
                        b == db[n][k].Entries[j]
                    IN  /\ TwoParts(a) /\ TwoParts(b)
                        /\ a.t < b.t \/ (a.t = b.t /\ a.s < b.s)

C37_ReturnedIDsGrow ==
    [][(/\ last'.cmd.name = "XADD" /\ last'.reply = "BULK" /\ db' # db
        /\ getCurrentDB[last'.cmd.key].Type = "stream"
        /\ "top" \in DOMAIN last /\ last.top # NoID
        /\ TwoParts(last.top)
        /\ TwoParts(db'[currentDB][last'.cmd.key].LastID))
       => IDLess(last.top, db'[currentDB][last'.cmd.key].LastID)]_vars

-----------------------------------------------------------------------------
(* Sorted sets.  A ZSet keeps the by-member map Members and the slice       *)
(* Sorted.  A score is a float64: strconv.ParseFloat accepts "NaN", and     *)
(* every comparison with NaN is false.                                      *)

MaxScore == 2

ZKeys == {"k1"}
ZMembers == <<"a", "b", "c">>

NaN == [nan |-> TRUE, v |-> 0]
Float(n) == [nan |-> FALSE, v |-> n]
Scores == {Float(n) : n \in 1..MaxScore} \cup {NaN}

\* float64 ==, > and +
FloatEq(x, y) == ~x.nan /\ ~y.nan /\ x.v = y.v
FloatGt(x, y) == ~x.nan /\ ~y.nan /\ x.v > y.v
FloatAdd(x, y) == IF x.nan \/ y.nan THEN NaN ELSE Float(x.v + y.v)

\* string comparison of two members
MemberIndex(m) == CHOOSE i \in 1..Len(ZMembers) : ZMembers[i] = m
MemberGe(m1, m2) == MemberIndex(m1) >= MemberIndex(m2)

ZSetMember(member, score) == [Member |-> member, Score |-> score]
ZSetValue(members, sorted) == [Type |-> "zset", Members |-> members, Sorted |-> sorted]
newZSet == ZSetValue([m \in {} |-> NaN], <<>>)

\* the slice without the first element that has the member
RemoveMember(sorted, member) ==
    IF \E i \in 1..Len(sorted) : sorted[i].Member = member
    THEN LET i == CHOOSE k \in 1..Len(sorted) :
                      /\ sorted[k].Member = member
                      /\ \A j \in 1..(k - 1) : sorted[j].Member # member
         IN  SubSeq(sorted, 1, i - 1) \o SubSeq(sorted, i + 1, Len(sorted))
    ELSE sorted

\* the predicate of the search in add: the element at index h (from 0) has a
\* greater score, or an equal score and a member that is not smaller
After(sorted, h, member, score) ==
    IF FloatEq(sorted[h + 1].Score, score)
    THEN MemberGe(sorted[h + 1].Member, member)
    ELSE FloatGt(sorted[h + 1].Score, score)

\* sort.Search: binary search for the first index in [0, n) at which the
\* predicate holds, n when the search finds none; indices count from 0
RECURSIVE Search(_, _, _, _, _)
Search(i, j, sorted, member, score) ==
    IF i < j
    THEN LET h == (i + j) \div 2
         IN  IF ~After(sorted, h, member, score)
             THEN Search(h + 1, j, sorted, member, score)
             ELSE Search(i, h, sorted, member, score)
    ELSE i

\* ZSet.add: set the score in the map, drop the member's old element, insert
\* the new element at the position the search returns
add(zs, member, score) ==
    LET exists == member \in DOMAIN zs.Members
        members == [m \in (DOMAIN zs.Members) \cup {member} |->
                       IF m = member THEN score ELSE zs.Members[m]]
        sorted == IF exists THEN RemoveMember(zs.Sorted, member) ELSE zs.Sorted
        pos == Search(0, Len(sorted), sorted, member, score)
    IN  [zs |-> ZSetValue(members,
                          SubSeq(sorted, 1, pos) \o <<ZSetMember(member, score)>>
                              \o SubSeq(sorted, pos + 1, Len(sorted))),
         added |-> ~exists]

\* ZSet.remove
remove(zs, member) ==
    IF member \notin DOMAIN zs.Members
    THEN [zs |-> zs, removed |-> FALSE]
    ELSE [zs |-> ZSetValue([m \in (DOMAIN zs.Members) \ {member} |-> zs.Members[m]],
                           RemoveMember(zs.Sorted, member)),
          removed |-> TRUE]

\* ZAdd of one score and member
ZAdd(key, score, member) ==
    LET value == getCurrentDB[key]
    IN  IF value.Type # "none" /\ value.Type # "zset"
        THEN [db |-> db, reply |-> "INT0"]
        ELSE LET zset == IF value.Type = "none" THEN newZSet ELSE value
                 r == add(zset, member, score)
             IN  [db |-> [db EXCEPT ![currentDB][key] = r.zs],
                  reply |-> IF r.added THEN "INT1" ELSE "INT0"]

\* ZRem of one member; a sorted set left without members is deleted
ZRem(key, member) ==
    LET value == getCurrentDB[key]
    IN  IF value.Type # "zset"
        THEN [db |-> db, reply |-> "INT0"]
        ELSE LET r == remove(value, member)
             IN  [db |-> [db EXCEPT ![currentDB][key] =
                              IF DOMAIN r.zs.Members = {} THEN NoValue ELSE r.zs],
                  reply |-> IF r.removed THEN "INT1" ELSE "INT0"]

\* ZIncrBy: the score of a missing member counts as 0
ZIncrBy(key, member, increment) ==
    LET value == getCurrentDB[key]
    IN  IF value.Type # "none" /\ value.Type # "zset"
        THEN [db |-> db, reply |-> "WRONGTYPE"]
        ELSE LET zset == IF value.Type = "none" THEN newZSet ELSE value
                 currentScore == IF member \in DOMAIN zset.Members
                                 THEN zset.Members[member] ELSE Float(0)
                 r == add(zset, member, FloatAdd(currentScore, increment))
             IN  [db |-> [db EXCEPT ![currentDB][key] = r.zs], reply |-> "BULK"]

ZAddCmds ==
    {[name |-> "ZADD", key |-> k, score |-> x, member |-> ZMembers[i]] :
        k \in ZKeys, x \in Scores, i \in 1..Len(ZMembers)}
ZRemCmds ==
    {[name |-> "ZREM", key |-> k, member |-> ZMembers[i]] : k \in ZKeys, i \in 1..Len(ZMembers)}
ZIncrByCmds ==
    {[name |-> "ZINCRBY", key |-> k, member |-> ZMembers[i], increment |-> Float(1)] :
        k \in ZKeys, i \in 1..Len(ZMembers)}

handleZSet(cmd) ==
    CASE cmd.name = "ZADD" -> ZAdd(cmd.key, cmd.score, cmd.member)
      [] cmd.name = "ZREM" -> ZRem(cmd.key, cmd.member)
      [] OTHER -> ZIncrBy(cmd.key, cmd.member, cmd.increment)

\* ZADD, ZREM, ZINCRBY: one critical section each
ZSetCommand(c, cmd) ==
    /\ Idle(c) /\ isAuthenticated(c)
    /\ ~IsInTransaction(c)
    /\ Unlocked
    /\ cmd.name = "ZINCRBY" =>
           (/\ getCurrentDB[cmd.key].Type = "zset"
            /\ cmd.member \in DOMAIN getCurrentDB[cmd.key].Members
            => /\ ~getCurrentDB[cmd.key].Members[cmd.member].nan
               /\ getCurrentDB[cmd.key].Members[cmd.member].v < MaxScore)
    /\ db' = handleZSet(cmd).db
    /\ last' = [conn |-> c, cmd |-> cmd, reply |-> handleZSet(cmd).reply]
    /\ UNCHANGED <<currentDB, tx, pc, watchDirty, selected>>
    /\ UnchangedAuth
    /\ UNCHANGED psvars
    /\ UNCHANGED cpvars
    /\ UNCHANGED exvars
    /\ UNCHANGED lkvars
    /\ UNCHANGED pfvars
    /\ UNCHANGED auvars
    /\ UNCHANGED rwvars
    /\ UNCHANGED idvars
    /\ UNCHANGED hdvars

InitZSet == InitCommon /\ password = ""

NextZSet ==
    \E c \in TxClients :
        \/ \E cmd \in ZAddCmds \cup ZRemCmds \cup ZIncrByCmds : ZSetCommand(c, cmd)
        \/ \E cmd \in {m \in SetCmds \cup DelCmds : m.key \in ZKeys} : KeyCommand(c, cmd)

SpecZSet == InitZSet /\ [][NextZSet]_vars

\* score ascending, then member ascending
ZBefore(x, y) ==
    \/ x.Score.v < y.Score.v /\ ~x.Score.nan /\ ~y.Score.nan
    \/ FloatEq(x.Score, y.Score) /\ ~MemberGe(x.Member, y.Member)

\* C22: the ordered projection of every sorted set is its by-member map
\* sorted by score ascending, then member ascending: every member of the
\* map occurs once with its score, and each element comes before the next.
C22_SortedMatchesMembers ==
    \A n \in DBs : \A k \in Keys :
        db[n][k].Type = "zset" =>
            LET zs == db[n][k]
            IN  /\ Len(zs.Sorted) = Cardinality(DOMAIN zs.Members)
                /\ \A i \in 1..Len(zs.Sorted) :
                       /\ zs.Sorted[i].Member \in DOMAIN zs.Members
                       /\ zs.Sorted[i].Score = zs.Members[zs.Sorted[i].Member]
                /\ \A m \in DOMAIN zs.Members :
                       \E i \in 1..Len(zs.Sorted) : zs.Sorted[i].Member = m
                /\ \A i \in 1..Len(zs.Sorted) : \A j \in 1..Len(zs.Sorted) :
                       i < j => ZBefore(zs.Sorted[i], zs.Sorted[j])

-----------------------------------------------------------------------------
(* Databases: SELECT, MOVE, FLUSHDB and FLUSHALL with keys that expire.     *)

FlushCmds == {[name |-> "FLUSHDB"], [name |-> "FLUSHALL"]}

MoveSpecCmds ==
    {cmd \in SetCmds \cup ExpireCmds \cup MoveCmds : cmd.key \in ExpKeys} \cup FlushCmds

InitMove == InitCommon /\ password = ""

NextMove ==
    \/ \E c \in Conns :
           \/ \E cmd \in MoveSpecCmds : KeyCommand(c, cmd)
           \/ \E cmd \in SelectCmds : Select(c, cmd)
    \/ Tick

SpecMove == InitMove /\ [][NextMove]_vars

\* the key exists in database n and its expiration instant has not passed
Live(n, key) ==
    /\ db[n][key].Type # "none"
    /\ ~(key \in DOMAIN expiration[n] /\ now > expiration[n][key])

\* C25: MOVE key n replies 1 exactly when the key is live in the database
\* the connection selected and not live in database n; then the value and
\* its expiration are in database n and gone from the source; otherwise
\* both databases are as before.
C25_MoveIffFree ==
    [][(now' = now /\ last'.cmd.name = "MOVE")
       => LET k == last'.cmd.key
              n == last'.cmd.db
              from == selected[last'.conn]
              ok == n # from /\ Live(from, k) /\ ~Live(n, k)
          IN  /\ last'.reply = (IF ok THEN "INT1" ELSE "INT0")
              /\ ok => /\ db'[n][k] = db[from][k]
                       /\ db'[from][k] = NoValue
                       /\ k \notin DOMAIN expiration'[from]
                       /\ (k \in DOMAIN expiration[from]) =>
                              /\ k \in DOMAIN expiration'[n]
                              /\ expiration'[n][k] = expiration[from][k]
              /\ ~ok => db' = db]_vars

\* C26: FLUSHALL leaves every database without keys and without expiration
\* records; FLUSHDB empties the current database and leaves the others.
C26_FlushAllEmptiesAll ==
    [][(now' = now /\ last'.cmd.name \in {"FLUSHDB", "FLUSHALL"})
       => IF last'.cmd.name = "FLUSHALL"
          THEN \A n \in DBs : db'[n] = newDatabase /\ expiration'[n] = NoExpirations
          ELSE \A n \in DBs :
                   IF n = currentDB
                   THEN db'[n] = newDatabase /\ expiration'[n] = NoExpirations
                   ELSE db'[n] = db[n] /\ expiration'[n] = expiration[n]]_vars

-----------------------------------------------------------------------------
(* SCAN.  The cursor is an index into the slice that Store.Keys builds by   *)
(* ranging over the data map; Go leaves the order of a map range            *)
(* unspecified, and it differs from one range to the next.  The client      *)
(* keeps the cursor between calls: pc holds it, with the history of the     *)
(* iteration (the keys present at its start, the keys returned so far).     *)

ScanCounts == {1}
ScanCmds == {[name |-> "SCAN", count |-> n] : n \in ScanCounts}

\* the keys of the current database after cleanupExpired
ExistingKeys == {k \in Keys : CleanupKeys(Keys).db[currentDB][k].Type # "none"}

\* Store.Keys("*"): the existing keys in any order
KeysAnyOrder ==
    {f \in [1..Cardinality(ExistingKeys) -> ExistingKeys] :
        \A i \in DOMAIN f : \A j \in DOMAIN f : f[i] = f[j] => i = j}

\* handleScan: the keys at [cursor, cursor + count) of the slice, and the
\* next cursor, 0 when the slice ends there
handleScan(allKeys, cursor, count) ==
    LET end == IF cursor + count > Len(allKeys) THEN Len(allKeys) ELSE cursor + count
    IN  [keys |-> IF cursor < Len(allKeys)
                  THEN {allKeys[i] : i \in (cursor + 1)..end} ELSE {},
         nextCursor |-> IF end < Len(allKeys) THEN end ELSE 0]

\* SCAN cursor COUNT n: cursor 0 starts an iteration, the client sends the
\* cursor it was given until it is given 0
Scan(c, cmd) ==
    /\ isAuthenticated(c) /\ ~IsInTransaction(c)
    /\ Unlocked
    /\ pc[c].op \in {"idle", "scan"}
    /\ \E allKeys \in KeysAnyOrder :
           LET cursor == IF Idle(c) THEN 0 ELSE pc[c].cursor
               start == IF Idle(c) THEN ExistingKeys ELSE pc[c].start
               seen == IF Idle(c) THEN {} ELSE pc[c].seen
               r == handleScan(allKeys, cursor, cmd.count)
           IN  /\ pc' = [pc EXCEPT ![c] =
                            IF r.nextCursor = 0 THEN AtIdle
                            ELSE [op |-> "scan", cursor |-> r.nextCursor,
                                  start |-> start, seen |-> seen \cup r.keys]]
               /\ last' = [conn |-> c, cmd |-> cmd, reply |-> "ARRAY",
                           cursor |-> r.nextCursor,
                           start |-> start, seen |-> seen \cup r.keys]
    /\ db' = CleanupKeys(Keys).db
    /\ expiration' = CleanupKeys(Keys).exp
    /\ UNCHANGED <<currentDB, tx, watchDirty, selected, now>>
    /\ UnchangedAuth
    /\ UNCHANGED psvars
    /\ UNCHANGED cpvars
    /\ UNCHANGED lkvars
    /\ UNCHANGED pfvars
    /\ UNCHANGED auvars
    /\ UNCHANGED rwvars
    /\ UNCHANGED idvars
    /\ UNCHANGED hdvars

\* a write while no iteration is under way
ScanWrite(c, cmd) ==
    /\ \A d \in Conns : Idle(d)
    /\ KeyCommand(c, cmd)

InitScan == InitCommon /\ password = ""

NextScan ==
    \E c \in Conns :
        \/ \E cmd \in SetCmds \cup DelCmds \cup LPushCmds : ScanWrite(c, cmd)
        \/ \E cmd \in ScanCmds : Scan(c, cmd)

SpecScan == InitScan /\ [][NextScan]_vars

\* C27: when an iteration ends (cursor 0 is returned), every key that was
\* there from its start to its end has been returned at least once.
C27_ScanVisitsAll ==
    (last.cmd.name = "SCAN" /\ last.cursor = 0) => last.start \subseteq last.seen

-----------------------------------------------------------------------------
(* The append-only file.  executeCommandWithAOF runs the command through   *)
(* executeCommandWithoutAOF and then, in a second call under the lock of   *)
(* the AOF alone, offers it to the file.  The transaction commands are     *)
(* dispatched by executeCommand, which has the transaction check; the      *)
(* switch of executeCommandWithoutAOF does not know them.                  *)

\* Longest append-only file of the model.
MaxAOFLen == 3

AOFKeys == {"k1"}

\* AOF.ShouldLogCommand: the names for which it returns true
ShouldLogCommand(command) ==
    command \in {"SET", "DEL", "EXPIRE", "EXPIREAT", "PEXPIRE", "PEXPIREAT",
                 "LPUSH", "RPUSH", "LPOP", "RPOP", "LSET", "LTRIM", "LINSERT",
                 "SADD", "SREM", "SPOP", "SMOVE",
                 "HSET", "HDEL", "HINCRBY", "HINCRBYFLOAT", "HMSET", "HSETNX",
                 "ZADD", "ZREM", "ZINCRBY",
                 "FLUSHDB", "FLUSHALL", "MOVE", "SWAPDB", "SELECT",
                 "JSON.SET", "JSON.DEL", "JSON.FORGET", "JSON.NUMINCRBY",
                 "JSON.NUMMULTBY", "JSON.STRAPPEND", "JSON.ARRAPPEND",
                 "JSON.ARRPOP", "JSON.ARRINSERT", "JSON.ARRTRIM"}

ShouldLogCommand_All(command) == TRUE

\* AOF.WriteCommand: the command is written after what the file holds
WriteCommand(command) == Append(aof, command)

\* logCommandToAOF, with the AOF enabled
logCommandToAOF(cmd) ==
    IF ShouldLogCommand(cmd.name) THEN WriteCommand(cmd) ELSE aof

\* strings.HasPrefix(result, "-ERR"): protocol.EncodeError starts every
\* error with it
HasPrefixERR(reply) == reply \in {"ERR", "WRONGTYPE", "NOAUTH", "WRONGPASS"}

\* The switch of executeCommandWithoutAOF: the data commands go to their
\* handlers; MULTI, EXEC, DISCARD, WATCH and UNWATCH are not among its cases.
executeCommandWithoutAOF(cmd) ==
    IF cmd.name \in {"MULTI", "EXEC", "DISCARD", "WATCH", "UNWATCH"}
    THEN [db |-> db, exp |-> expiration, reply |-> "ERR"]
    ELSE executeCommand(cmd)

\* The commands sent to executeCommandWithAOF in this model.
AOFCmds ==
    {m \in SetCmds \cup DelCmds \cup GetCmds \cup AppendCmds : m.key \in AOFKeys}
        \cup {[name |-> "EXEC"]}

\* The commands queued between MULTI and EXEC in this model.
AOFQueueCmds == {m \in SetCmds \cup DelCmds : m.key \in AOFKeys}

\* executeCommandWithAOF, first call: the command runs.  pc keeps the reply,
\* whether the keyspace changed, and (history) the connections whose command
\* changed the keyspace earlier and is not in the file yet.
AOFExecute(c, cmd) ==
    /\ Idle(c) /\ ~IsInTransaction(c)
    /\ Unlocked
    /\ Len(aof) + Cardinality({d \in Conns : pc[d].op = "aof"}) < MaxAOFLen
    /\ cmd.name = "APPEND" =>
           (getCurrentDB[cmd.key].Type = "string" =>
                Len(getCurrentDB[cmd.key].StringVal) < MaxStrLen)
    /\ LET r == executeCommandWithoutAOF(cmd)
       IN  /\ db' = r.db /\ expiration' = r.exp
           /\ pc' = [pc EXCEPT ![c] =
                        [op |-> "aof", cmd |-> cmd, reply |-> r.reply,
                         wrote |-> (r.db # db \/ r.exp # expiration),
                         after |-> {d \in Conns : pc[d].op = "aof" /\ pc[d].wrote}]]
    /\ watchDirty' = MarkWritten(Written(cmd))
    /\ last' = [conn |-> c, cmd |-> cmd, reply |-> "none"]
    /\ UNCHANGED <<currentDB, tx, selected, now>>
    /\ UnchangedAuth
    /\ UNCHANGED psvars
    /\ UNCHANGED cpvars
    /\ UNCHANGED lkvars
    /\ UNCHANGED pfvars
    /\ UNCHANGED auvars
    /\ UNCHANGED rwvars
    /\ UNCHANGED idvars
    /\ UNCHANGED hdvars

\* (history) The keys of the SET and DEL commands that were answered without
\* an error while a rewrite ran, each with the value it had at the answer; a
\* later answer for the same key replaces the entry.
Acknowledge(p) ==
    IF p.cmd.name \in {"SET", "DEL"} /\ ~HasPrefixERR(p.reply)
    THEN LET others == {e \in rewrite.acked : e.key # p.cmd.key}
             entry == [key |-> p.cmd.key, value |-> getCurrentDB[p.cmd.key]]
         IN  IF rewrite.step \in {"state", "rename"}
                \/ \E e \in rewrite.acked : e.key = p.cmd.key
             THEN others \cup {entry}
             ELSE rewrite.acked
    ELSE rewrite.acked

\* executeCommandWithAOF, second call: unless the reply is an error the
\* command is offered to the file; then the reply is written.
AOFLog(c) ==
    /\ pc[c].op = "aof"
    /\ aof' = IF HasPrefixERR(pc[c].reply) THEN aof ELSE logCommandToAOF(pc[c].cmd)
    /\ pc' = [d \in Conns |->
                 IF d = c THEN AtIdle
                 ELSE IF pc[d].op = "aof"
                      THEN [pc[d] EXCEPT !.after = @ \ {c}]
                      ELSE pc[d]]
    /\ last' = [conn |-> c, cmd |-> pc[c].cmd, reply |-> pc[c].reply]
    /\ UNCHANGED <<snapshot, saved>>
    /\ UNCHANGED kvvars
    /\ UNCHANGED psvars
    /\ UNCHANGED cpvars
    /\ UNCHANGED exvars
    /\ UNCHANGED lkvars
    /\ UNCHANGED auvars
    /\ rewrite' = [rewrite EXCEPT !.acked = Acknowledge(pc[c])]
    /\ UNCHANGED idvars
    /\ UNCHANGED hdvars

InitAOF == InitCommon /\ password = ""

NextAOF ==
    \/ \E c \in Conns, cmd \in AOFCmds : AOFExecute(c, cmd)
    \/ \E c \in Conns : AOFLog(c)
    \/ \E c \in TxClients :
        \/ Multi(c)
        \/ \E cmd \in AOFQueueCmds : QueueGate(c, cmd)
        \/ ExecBegin(c)
        \/ ExecStep(c)

SpecAOF == InitAOF /\ [][NextAOF]_vars

\* The write-command set of the AOF, as the specification enumerates it.
WriteCommandSet ==
    {"SET", "DEL", "EXPIRE", "EXPIREAT", "PEXPIRE", "PEXPIREAT",
     "LPUSH", "RPUSH", "LPOP", "RPOP", "LSET", "LTRIM", "LINSERT",
     "SADD", "SREM", "SPOP", "SMOVE",
     "HSET", "HDEL", "HINCRBY", "HINCRBYFLOAT", "HMSET", "HSETNX",
     "ZADD", "ZREM", "ZINCRBY", "XADD", "XDEL", "XTRIM", "XGROUP",
     "FLUSHDB", "FLUSHALL", "MOVE", "SWAPDB", "SELECT",
     "JSON.SET", "JSON.DEL", "JSON.FORGET", "JSON.NUMINCRBY",
     "JSON.NUMMULTBY", "JSON.STRAPPEND", "JSON.ARRAPPEND",
     "JSON.ARRPOP", "JSON.ARRINSERT", "JSON.ARRTRIM"}

\* C28: a write command that succeeded is the next entry of the file when
\* its handler is done, and no command that ran before it is still missing
\* from the file then; a write command that EXEC runs from the queue is
\* appended as well.
C28_WritesLoggedInOrder ==
    [][\A c \in Conns :
        /\ (/\ pc[c].op = "aof" /\ pc'[c].op = "idle"
            /\ pc[c].cmd.name \in WriteCommandSet
            /\ ~HasPrefixERR(pc[c].reply))
           => (aof' = Append(aof, pc[c].cmd) /\ pc[c].after = {})
        /\ (/\ pc[c].op = "EXEC" /\ pc'[c] # pc[c]
            /\ tx[c].Queue[pc[c].i].name \in WriteCommandSet)
           => aof' = Append(aof, tx[c].Queue[pc[c].i])]_vars

-----------------------------------------------------------------------------
(* Rewrite of the append-only file and replay at start.  BGREWRITEAOF      *)
(* replaces the file by the commands getCurrentDatabaseState returns; at   *)
(* start loadFromAOF runs every command of the file through                *)
(* executeCommandDirectly.  The rewrite runs in a goroutine of its own;    *)
(* its enumeration and the rename are one step here.                       *)

NoFile == [none |-> TRUE]

\* The commands that build the keyspace in this model.
RewriteCmds ==
    {cmd \in SetCmds \cup LPushCmds \cup ExpireCmds \cup MoveCmds : cmd.key \in ExpKeys}
        \cup {cmd \in SAddCmds : cmd.key \in ExpKeys /\ Cardinality(cmd.members) = 1}

\* one RPUSH for each value of the list
RPushEach(key, list) ==
    [i \in 1..Len(list) |-> [name |-> "RPUSH", key |-> key, values |-> <<list[i]>>]]

\* one SADD for each member of the set ("for member := range set")
RECURSIVE SAddEach(_, _)
SAddEach(key, set) ==
    IF set = {} THEN <<>>
    ELSE LET member == CHOOSE m \in set : TRUE
         IN  <<[name |-> "SADD", key |-> key, members |-> {member}]>>
                 \o SAddEach(key, set \ {member})

\* getCurrentDatabaseState, the commands of one key: by the type of the
\* value, then PEXPIRE with the remaining milliseconds if the TTL is positive
KeyState(key) ==
    LET value == getCurrentDB[key]
        byType == CASE value.Type = "string" ->
                         <<[name |-> "SET", key |-> key, val |-> value.StringVal]>>
                    [] value.Type = "list" -> RPushEach(key, value.ListVal)
                    [] value.Type = "set" -> SAddEach(key, value.SetVal)
                    [] OTHER -> <<>>
        ttl == IF key \in DOMAIN expiration[currentDB]
               THEN expiration[currentDB][key] - now ELSE 0
    IN  IF ttl > 0
        THEN Append(byType, [name |-> "PEXPIRE", key |-> key, ms |-> ttl * 1000])
        ELSE byType

\* getCurrentDatabaseState: the keys Store.Keys("*") returns, which are the
\* keys of the current database, each with its commands
RECURSIVE getCurrentDatabaseState(_, _)
getCurrentDatabaseState(keys, i) ==
    IF i > Len(keys) THEN <<>>
    ELSE KeyState(keys[i]) \o getCurrentDatabaseState(keys, i + 1)

\* executeCommandDirectly: SET, DEL, EXPIRE, SELECT, FLUSHDB and FLUSHALL are
\* its cases; any other command of the file does nothing
executeCommandDirectly(cmd) ==
    CASE cmd.name = "SET" ->
             [db |-> Set(cmd.key, cmd.val), exp |-> DeleteExpiration(cmd.key),
              currentDB |-> currentDB]
      [] cmd.name = "DEL" ->
             [db |-> Del(cmd.key), exp |-> DeleteExpiration(cmd.key),
              currentDB |-> currentDB]
      [] cmd.name = "EXPIRE" ->
             [db |-> handleExpire(cmd).db, exp |-> handleExpire(cmd).exp,
              currentDB |-> currentDB]
      [] cmd.name = "SELECT" ->
             [db |-> db, exp |-> expiration,
              currentDB |-> handleSelect(cmd.index).currentDB]
      [] cmd.name = "FLUSHDB" ->
             [db |-> FlushDB.db, exp |-> FlushDB.exp, currentDB |-> currentDB]
      [] cmd.name = "FLUSHALL" ->
             [db |-> [n \in DBs |-> newDatabase],
              exp |-> [n \in DBs |-> NoExpirations], currentDB |-> currentDB]
      [] OTHER -> [db |-> db, exp |-> expiration, currentDB |-> currentDB]

\* What a client can observe of a keyspace at an instant: per database and
\* key, the value and the expiration of every key that has not expired.
Keyspace(d, e, t) ==
    [n \in DBs |->
        [k \in Keys |->
            IF k \in DOMAIN e[n] /\ t > e[n][k]
            THEN [value |-> NoValue, expiresAt |-> 0 - 1]
            ELSE [value |-> d[n][k],
                  expiresAt |-> IF d[n][k].Type # "none" /\ k \in DOMAIN e[n]
                                THEN e[n][k] ELSE 0 - 1]]]

\* BGREWRITEAOF: AOF.Rewrite writes the commands of getCurrentDatabaseState
\* to a temporary file and renames it over the append-only file
BGRewriteAOF(c) ==
    /\ Idle(c) /\ isAuthenticated(c) /\ ~IsInTransaction(c)
    /\ \E keys \in KeysAnyOrder :
           LET st == CleanupKeys(Keys)
           IN  /\ db' = st.db /\ expiration' = st.exp
               /\ aof' = getCurrentDatabaseState(keys, 1)
               /\ saved' = [keyspace |-> Keyspace(db, expiration, now),
                            file |-> aof', now |-> now]
    /\ last' = [conn |-> c, cmd |-> [name |-> "BGREWRITEAOF"], reply |-> "OK"]
    /\ UNCHANGED <<currentDB, tx, pc, watchDirty, selected, now, snapshot>>
    /\ UnchangedAuth
    /\ UNCHANGED psvars
    /\ UNCHANGED cpvars
    /\ UNCHANGED lkvars
    /\ UNCHANGED auvars
    /\ UNCHANGED rwvars
    /\ UNCHANGED idvars
    /\ UNCHANGED hdvars

\* The server stops and starts with the append-only file alone: a new store,
\* no connection state, and loadFromAOF about to run the first command of the
\* file.  No connection is served before the file is loaded.  The record of
\* the start keeps (history) the keyspace the server stopped with.
RestartAOF ==
    /\ \A c \in Conns : Idle(c)
    /\ db' = [n \in DBs |-> newDatabase]
    /\ expiration' = [n \in DBs |-> NoExpirations]
    /\ currentDB' = 0
    /\ tx' = [c \in Conns |-> NewTransactionContext]
    /\ watchDirty' = [c \in Conns |-> {}]
    /\ selected' = [c \in Conns |-> 0]
    /\ authenticatedConns' = {}
    /\ last' = [conn |-> "none", cmd |-> [name |-> "START"],
                reply |-> IF aof = <<>> THEN "loaded" ELSE "none",
                before |-> Keyspace(db, expiration, now), at |-> now, log |-> aof]
    /\ pc' = IF aof = <<>> THEN pc ELSE [c \in Conns |-> [op |-> "loading", i |-> 1]]
    /\ UNCHANGED <<password, now>>
    /\ UNCHANGED psvars
    /\ UNCHANGED cpvars
    /\ UNCHANGED lkvars
    /\ UNCHANGED pfvars
    /\ authWith' = [c \in Conns |-> {}]
    /\ rewrite' = IF rewrite.step \in {"state", "rename"} THEN NoRewrite ELSE rewrite
    /\ UNCHANGED idvars
    /\ UNCHANGED hdvars

\* loadFromAOF, one iteration of the loop over the commands of the file
LoadStep ==
    /\ \A c \in Conns : pc[c].op = "loading"
    /\ LET i == pc[CHOOSE c \in Conns : TRUE].i
           r == executeCommandDirectly(aof[i])
       IN  /\ db' = r.db /\ expiration' = r.exp /\ currentDB' = r.currentDB
           /\ IF i = Len(aof)
              THEN /\ pc' = [c \in Conns |-> AtIdle]
                   /\ last' = [last EXCEPT !.reply = "loaded"]
              ELSE /\ pc' = [c \in Conns |-> [op |-> "loading", i |-> i + 1]]
                   /\ UNCHANGED last
    /\ UNCHANGED <<tx, watchDirty, selected, now>>
    /\ UnchangedAuth
    /\ UNCHANGED psvars
    /\ UNCHANGED cpvars
    /\ UNCHANGED lkvars
    /\ UNCHANGED pfvars
    /\ UNCHANGED auvars
    /\ UNCHANGED rwvars
    /\ UNCHANGED idvars
    /\ UNCHANGED hdvars

InitRewrite == InitCommon /\ password = ""

NextRewrite ==
    \/ \E c \in TxClients :
        \/ \E cmd \in RewriteCmds : KeyCommand(c, cmd)
        \/ BGRewriteAOF(c)
    \/ RestartAOF
    \/ LoadStep

SpecRewrite == InitRewrite /\ [][NextRewrite]_vars

\* C29: when the server has started from the file a rewrite produced, with
\* no time passed since the rewrite, the keyspace (every database, every
\* value, every expiration) is the keyspace the rewrite was taken from.
C29_RewriteRoundTrip ==
    (/\ last.cmd.name = "START" /\ last.reply = "loaded"
     /\ "file" \in DOMAIN saved /\ saved.file = aof /\ saved.now = now)
    => Keyspace(db, expiration, now) = saved.keyspace

-----------------------------------------------------------------------------
(* The snapshot.  SAVE calls Store.Save, which hands the string values and *)
(* the expiration records of database 0 to Persistence.Save; a new store   *)
(* calls Store.Load, which reads them back through LoadDatabases.          *)

EmptySnapshot == [Data |-> [k \in {} |-> NoValue], Expiration |-> NoExpirations]

\* Store.Save and Persistence.Save: of database 0, the values of type string
\* and every expiration record; the other databases of the file are empty
Save ==
    LET strings == {k \in Keys : db[0][k].Type = "string"}
    IN  [n \in DBs |->
            IF n = 0
            THEN [Data |-> [k \in strings |-> db[0][k]], Expiration |-> expiration[0]]
            ELSE EmptySnapshot]

\* LoadDatabases: per database the keys of Data, without those whose
\* expiration has passed; an expiration is kept for the keys of Data only
LoadDatabases(file) ==
    [n \in DBs |->
        LET kept == {k \in DOMAIN file[n].Data :
                        ~(k \in DOMAIN file[n].Expiration /\ now > file[n].Expiration[k])}
        IN  [Data |-> [k \in kept |-> file[n].Data[k]],
             Expiration |-> [k \in kept \cap DOMAIN file[n].Expiration |->
                                file[n].Expiration[k]]]]

\* The commands that build the keyspace in this model.
SnapshotCmds ==
    {cmd \in SetCmds \cup LPushCmds \cup ExpireCmds \cup MoveCmds : cmd.key \in ExpKeys}

\* SAVE
SaveCommand(c) ==
    /\ Idle(c) /\ isAuthenticated(c) /\ ~IsInTransaction(c)
    /\ Unlocked
    /\ snapshot' = [Databases |-> Save]
    /\ saved' = [db |-> db, exp |-> expiration, snapshot |-> snapshot']
    /\ last' = [conn |-> c, cmd |-> [name |-> "SAVE"], reply |-> "OK"]
    /\ UNCHANGED <<aof, pc>>
    /\ UNCHANGED kvvars
    /\ UNCHANGED psvars
    /\ UNCHANGED cpvars
    /\ UNCHANGED exvars
    /\ UNCHANGED lkvars
    /\ UNCHANGED auvars
    /\ UNCHANGED rwvars
    /\ UNCHANGED idvars
    /\ UNCHANGED hdvars

\* The server stops and starts with the snapshot alone: NewStore makes the
\* empty databases and calls Store.Load, which puts the string values of
\* database 0 of the file into database 0 and replaces its expiration map.
RestartSnapshot ==
    /\ \A c \in Conns : Idle(c)
    /\ "Databases" \in DOMAIN snapshot
    /\ LET fresh == [db |-> [n \in DBs |-> newDatabase],
                     exp |-> [n \in DBs |-> NoExpirations]]
           loaded == LoadDatabases(snapshot.Databases)[0]
           strings == {k \in DOMAIN loaded.Data : loaded.Data[k].Type = "string"}
       IN  /\ db' = [fresh.db EXCEPT ![0] =
                        [k \in Keys |-> IF k \in strings THEN loaded.Data[k] ELSE @[k]]]
           /\ expiration' = [fresh.exp EXCEPT ![0] = loaded.Expiration]
    /\ currentDB' = 0
    /\ tx' = [c \in Conns |-> NewTransactionContext]
    /\ watchDirty' = [c \in Conns |-> {}]
    /\ selected' = [c \in Conns |-> 0]
    /\ authenticatedConns' = {}
    /\ last' = [conn |-> "none", cmd |-> [name |-> "START"], reply |-> "snapshot"]
    /\ UNCHANGED <<password, now, pc>>
    /\ UNCHANGED psvars
    /\ UNCHANGED cpvars
    /\ UNCHANGED lkvars
    /\ UNCHANGED pfvars
    /\ authWith' = [c \in Conns |-> {}]
    /\ rewrite' = IF rewrite.step \in {"state", "rename"} THEN NoRewrite ELSE rewrite
    /\ UNCHANGED idvars
    /\ UNCHANGED hdvars

InitSnapshot == InitCommon /\ password = ""

NextSnapshot ==
    \/ \E c \in TxClients :
        \/ \E cmd \in SnapshotCmds : KeyCommand(c, cmd)
        \/ SaveCommand(c)
    \/ RestartSnapshot
    \/ Tick

SpecSnapshot == InitSnapshot /\ [][NextSnapshot]_vars

\* C30: when the server has started from the snapshot that the last SAVE
\* wrote, the keyspace is the keyspace that SAVE was taken from, without the
\* keys that have expired by now: all databases, all values, all expirations.
C30_SnapshotRoundTrip ==
    (/\ last.cmd.name = "START" /\ last.reply = "snapshot"
     /\ "snapshot" \in DOMAIN saved /\ saved.snapshot = snapshot)
    => Keyspace(db, expiration, now) = Keyspace(saved.db, saved.exp, now)

-----------------------------------------------------------------------------
(* CONFIG SET requirepass.  applyConfigChange assigns Server.password; the  *)
(* map of authenticated connections is left as it is.                      *)

ConfigPasswords == Passwords \cup {""}

\* applyConfigChange, case "requirepass"
applyConfigChange(value) == value

\* CONFIG SET requirepass value: behind the authentication gate like every
\* command other than AUTH and PING
ConfigSet(c, value) ==
    /\ Idle(c) /\ isAuthenticated(c) /\ ~IsInTransaction(c)
    /\ password' = applyConfigChange(value)
    /\ last' = [conn |-> c, cmd |-> [name |-> "CONFIG", value |-> value], reply |-> "OK"]
    /\ UNCHANGED <<db, currentDB, authenticatedConns, tx, pc, watchDirty, selected>>
    /\ UNCHANGED psvars
    /\ UNCHANGED cpvars
    /\ UNCHANGED exvars
    /\ UNCHANGED lkvars
    /\ UNCHANGED pfvars
    /\ UNCHANGED auvars
    /\ UNCHANGED rwvars
    /\ UNCHANGED idvars
    /\ UNCHANGED hdvars

ConfigDataCmds == {cmd \in SetCmds : cmd.key \in ExpKeys}

InitConfig == InitCommon /\ password = ServerPassword

NextConfig ==
    \E c \in Conns :
        \/ \E cmd \in AuthCmds : Auth(c, cmd)
        \/ \E value \in ConfigPasswords : ConfigSet(c, value)
        \/ \E cmd \in ConfigDataCmds : NotAuthenticated(c, cmd)
        \/ \E cmd \in ConfigDataCmds : Direct(c, cmd)
        \/ Quit(c)

SpecConfig == InitConfig /\ [][NextConfig]_vars

\* C31: a command other than the exempt ones is refused when a password is
\* required and the connection has not authenticated with that password,
\* and it is not refused when no password is required.
C31_RequirepassImmediate ==
    [][\A c \in Conns :
          (last'.conn = c /\ last'.cmd.name \notin ExemptNames)
          => (/\ (password # "" /\ password \notin authWith[c])
                     => last'.reply = "NOAUTH"
              /\ password = "" => last'.reply # "NOAUTH")]_vars

-----------------------------------------------------------------------------
(* Connection keys.  handleConnection makes the key of a connection from   *)
(* the address of its net.Conn ("%p"); when the connection ends, its entry *)
(* of authenticatedConns is deleted.  The memory of a closed connection is *)
(* free for the next one, so a later connection can have the same key.     *)

Closed == [op |-> "closed"]

\* handleConnection, the deferred function: the read loop has ended
CloseConnection(c) ==
    /\ Idle(c)
    /\ pc' = [pc EXCEPT ![c] = Closed]
    /\ authenticatedConns' = authenticatedConns \ {c}
    /\ authWith' = [authWith EXCEPT ![c] = {}]
    /\ last' = [conn |-> c, cmd |-> [name |-> "CLOSE"], reply |-> "none"]
    /\ UNCHANGED <<db, currentDB, password, tx, watchDirty, selected>>
    /\ UNCHANGED psvars
    /\ UNCHANGED cpvars
    /\ UNCHANGED exvars
    /\ UNCHANGED lkvars
    /\ UNCHANGED pfvars
    /\ UNCHANGED rwvars
    /\ UNCHANGED idvars
    /\ UNCHANGED hdvars

\* handleConnection, entry, for a connection whose net.Conn is at the address
\* a closed connection had: the key is the same string
AcceptSameKey(c) ==
    /\ pc[c] = Closed
    /\ pc' = [pc EXCEPT ![c] = AtIdle]
    /\ last' = [conn |-> c, cmd |-> [name |-> "ACCEPT"], reply |-> "none"]
    /\ UNCHANGED kvvars
    /\ UNCHANGED psvars
    /\ UNCHANGED cpvars
    /\ UNCHANGED exvars
    /\ UNCHANGED lkvars
    /\ UNCHANGED pfvars
    /\ UNCHANGED auvars
    /\ UNCHANGED rwvars
    /\ UNCHANGED idvars
    /\ UNCHANGED hdvars

ConnKeyCmds == {cmd \in SetCmds : cmd.key \in ExpKeys}

InitConnKey == InitCommon /\ password = ServerPassword

NextConnKey ==
    \E c \in Conns :
        \/ \E cmd \in {m \in AuthCmds : m.pw = ServerPassword} : Auth(c, cmd)
        \/ Multi(c)
        \/ \E cmd \in ConnKeyCmds : QueueGate(c, cmd)
        \/ \E k \in ExpKeys : Watch(c, k)
        \/ CloseConnection(c)
        \/ AcceptSameKey(c)

SpecConnKey == InitConnKey /\ [][NextConnKey]_vars

\* C32: a connection that has just been accepted is not authenticated, is
\* not in a transaction, and has no queued command and no watched key.
C32_FreshConnectionState ==
    \A c \in Conns :
        (last.conn = c /\ last.cmd.name = "ACCEPT")
        => (/\ c \notin authenticatedConns
            /\ tx[c] = NewTransactionContext)

-----------------------------------------------------------------------------
(* Claims about the locks of the store, checked under SpecSets             *)

\* C33: no connection running SINTERSTORE, SUNIONSTORE or SDIFFSTORE waits
\* for the read lock while it holds the write lock itself.
C33_NoSelfWait ==
    \A c \in Conns : ~(pc[c].op = "RLock" /\ mu = c)

-----------------------------------------------------------------------------
(* Removing the last element of a collection.  The clock stands still in   *)
(* this specification, so no key expires.                                  *)

LPopCmds == {[name |-> "LPOP", key |-> k] : k \in Keys}
SRemCmds == {[name |-> "SREM", key |-> k, members |-> m] : k \in Keys, m \in (SUBSET Members) \ {{}}}

DrainCmds == LPushCmds \cup LPopCmds \cup SAddCmds \cup SRemCmds \cup ExpireCmds

InitDrain == InitCommon /\ password = ""

NextDrain == \E c \in TxClients, cmd \in DrainCmds : KeyCommand(c, cmd)

SpecDrain == InitDrain /\ [][NextDrain]_vars

\* C34: in every database, every key with an expiration record has a value.
C34_ExpirationOnlyForData ==
    \A n \in DBs : \A k \in DOMAIN expiration[n] : db[n][k].Type # "none"

-----------------------------------------------------------------------------
(* The rewrite as it runs: handleBGRewriteAOF starts a goroutine and       *)
(* answers; the goroutine takes the commands of the keyspace, writes them  *)
(* to the temporary file and then, under the mutex of the AOF, renames the *)
(* temporary file over the append-only file.  Commands of connections run  *)
(* between the steps.  One rewrite runs at a time in this model.           *)

\* handleBGRewriteAOF: "go s.performAOFRewrite()" and the answer
handleBGRewriteAOF(c) ==
    /\ Idle(c) /\ isAuthenticated(c) /\ ~IsInTransaction(c)
    /\ rewrite.step \in {"idle", "done"}
    /\ rewrite' = [step |-> "state", temp |-> <<>>, acked |-> {}]
    /\ last' = [conn |-> c, cmd |-> [name |-> "BGREWRITEAOF"], reply |-> "OK"]
    /\ UNCHANGED pc
    /\ UNCHANGED kvvars
    /\ UNCHANGED psvars
    /\ UNCHANGED cpvars
    /\ UNCHANGED exvars
    /\ UNCHANGED lkvars
    /\ UNCHANGED pfvars
    /\ UNCHANGED auvars
    /\ UNCHANGED idvars
    /\ UNCHANGED hdvars

\* AOF.Rewrite, first part: getCurrentState() and the temporary file
RewriteState ==
    /\ rewrite.step = "state"
    /\ Unlocked
    /\ \E keys \in KeysAnyOrder :
           LET st == CleanupKeys(Keys)
           IN  /\ db' = st.db /\ expiration' = st.exp
               /\ rewrite' = [rewrite EXCEPT !.step = "rename",
                                             !.temp = getCurrentDatabaseState(keys, 1)]
    /\ UNCHANGED <<currentDB, tx, pc, last, watchDirty, selected, now>>
    /\ UnchangedAuth
    /\ UNCHANGED psvars
    /\ UNCHANGED cpvars
    /\ UNCHANGED lkvars
    /\ UNCHANGED pfvars
    /\ UNCHANGED auvars
    /\ UNCHANGED idvars
    /\ UNCHANGED hdvars

\* AOF.Rewrite, second part, under aof.mu: the current file is closed and
\* os.Rename puts the temporary file in its place
RewriteRename ==
    /\ rewrite.step = "rename"
    /\ aof' = rewrite.temp
    /\ rewrite' = [rewrite EXCEPT !.step = "done"]
    /\ UNCHANGED <<snapshot, saved, pc, last>>
    /\ UNCHANGED kvvars
    /\ UNCHANGED psvars
    /\ UNCHANGED cpvars
    /\ UNCHANGED exvars
    /\ UNCHANGED lkvars
    /\ UNCHANGED auvars
    /\ UNCHANGED idvars
    /\ UNCHANGED hdvars

\* The commands sent while a rewrite may run: SET and DEL, which the replay
\* at start executes.
BgRewriteCmds == SetCmds \cup DelCmds

InitBgRewrite == InitCommon /\ password = ""

NextBgRewrite ==
    \/ \E c \in TxClients, cmd \in BgRewriteCmds : AOFExecute(c, cmd)
    \/ \E c \in TxClients : AOFLog(c)
    \/ \E c \in TxClients : handleBGRewriteAOF(c)
    \/ RewriteState
    \/ RewriteRename
    \/ RestartAOF
    \/ LoadStep

SpecBgRewrite == InitBgRewrite /\ [][NextBgRewrite]_vars

\* C35: when the server has started from the append-only file after a
\* rewrite finished, every key whose SET or DEL was answered while the
\* rewrite ran has the value it had at that answer.
C35_AckedDuringRewriteKept ==
    (/\ last.cmd.name = "START" /\ last.reply = "loaded"
     /\ rewrite.step = "done")
    => \A e \in rewrite.acked : getCurrentDB[e.key] = e.value

-----------------------------------------------------------------------------
(* Restart with the append-only file the commands of the clients wrote.    *)
(* The record of the start keeps (history) the keyspace the server stopped *)
(* with, the instant, and the file it started from.                        *)

\* The commands sent before the restart.
ReplayCmds ==
    {cmd \in SetCmds \cup DelCmds \cup LPushCmds \cup ExpireCmds : cmd.key \in ExpKeys}

InitReplay == InitCommon /\ password = ""

NextReplay ==
    \/ \E c \in TxClients, cmd \in ReplayCmds : AOFExecute(c, cmd)
    \/ \E c \in TxClients : AOFLog(c)
    \/ RestartAOF
    \/ LoadStep
    \/ Tick

SpecReplay == InitReplay /\ [][NextReplay]_vars

\* C36: when the server has started from the append-only file, with no time
\* passed since it stopped, the keyspace is the one it stopped with and the
\* file is the one it started from.
C36_ReplayReproduces ==
    (/\ last.cmd.name = "START" /\ last.reply = "loaded"
     /\ last.at = now)
    => (Keyspace(db, expiration, now) = last.before /\ aof = last.log)

-----------------------------------------------------------------------------
(* Idle connections.  cleanupIdleConnections calls removeIdleConnections   *)
(* on every tick of its timer: a scan under the read lock of the pool,     *)
(* then one removal under the write lock for each key the scan found.      *)

\* The idle timeout of the model (ConnectionConfig.IdleTimeout), in seconds.
IdleTimeout == 1

\* UpdateActivity, which the handler of a connection calls for each command
\* it reads: under cp.mu.RLock, lastActivity becomes time.Now()
UpdateActivity(n) ==
    /\ accepting[n] = "accepted"
    /\ n \in connections
    /\ lastActivity' = [lastActivity EXCEPT ![n] = now]
    /\ UNCHANGED reaper
    /\ UNCHANGED cpvars
    /\ UNCHANGED othervars

\* removeIdleConnections, the scan under cp.mu.RLock: the keys of the
\* connections whose last activity is more than the idle timeout ago
ReaperScan ==
    /\ reaper.step = "idle"
    /\ LET toRemove == {n \in connections : now - lastActivity[n] > IdleTimeout}
       IN  reaper' = IF toRemove = {}
                     THEN reaper
                     ELSE [step |-> "remove", toRemove |-> toRemove]
    /\ reaper' # reaper
    /\ UNCHANGED lastActivity
    /\ UNCHANGED cpvars
    /\ UNCHANGED othervars

\* removeIdleConnections, one iteration of "for _, connID := range toRemove":
\* under cp.mu.Lock, a key that is still in the map is closed, deleted and
\* counted off
ReaperRemove(n) ==
    /\ reaper.step = "remove"
    /\ n \in reaper.toRemove
    /\ IF n \in connections
       THEN /\ connections' = connections \ {n}
            /\ activeCount' = activeCount - 1
       ELSE UNCHANGED <<activeCount, connections>>
    /\ reaper' = IF reaper.toRemove = {n}
                 THEN [step |-> "idle", toRemove |-> {}]
                 ELSE [reaper EXCEPT !.toRemove = @ \ {n}]
    /\ UNCHANGED <<accepting, lastActivity>>
    /\ UNCHANGED othervars

InitReaper == InitCommon /\ password = ""

NextReaper ==
    \/ \E n \in Arriving :
           \/ AcceptCheck(n)
           \/ AcceptInsert(n)
           \/ AcceptCount(n)
           \/ RemoveConnection(n)
           \/ Arrive(n)
           \/ UpdateActivity(n)
           \/ ReaperRemove(n)
    \/ ReaperScan
    \/ Tick

SpecReaper == InitReaper /\ [][NextReaper]_vars

\* C38: a connection that removeIdleConnections closes has been idle longer
\* than the idle timeout at that moment, and the active count goes down by
\* one with it.
C38_ReaperClosesOnlyIdle ==
    [][\A n \in Arriving :
          (reaper' # reaper /\ n \in connections /\ n \notin connections')
          => (/\ now - lastActivity[n] > IdleTimeout
              /\ activeCount' = activeCount - 1)]_vars

-----------------------------------------------------------------------------
(* Reads under the shared lock.  Store.Exists and Store.Keys take          *)
(* Store.mu.RLock, which any number of goroutines hold at a time while no  *)
(* writer holds the lock; a writer waits until every reader has unlocked.  *)

ExistsCmds == {[name |-> "EXISTS", key |-> k] : k \in ExpKeys}
KeysCmds == {[name |-> "KEYS", pattern |-> "*"]}

\* no goroutine holds Store.mu for reading
NoStoreReader == \A c \in Conns : pc[c].op # "RLocked"

\* Store.Exists and Store.Keys, "s.mu.RLock()"
ReadRLock(c, cmd) ==
    /\ Idle(c) /\ isAuthenticated(c) /\ ~IsInTransaction(c)
    /\ RLockReady(mu)
    /\ pc' = [pc EXCEPT ![c] = [op |-> "RLocked", cmd |-> cmd]]
    /\ last' = [conn |-> c, cmd |-> cmd, reply |-> "none"]
    /\ UNCHANGED kvvars
    /\ UNCHANGED psvars
    /\ UNCHANGED cpvars
    /\ UNCHANGED exvars
    /\ UNCHANGED lkvars
    /\ UNCHANGED pfvars
    /\ UNCHANGED auvars
    /\ UNCHANGED rwvars
    /\ UNCHANGED idvars
    /\ UNCHANGED hdvars

\* Store.Exists and Store.Keys from the RLock to the deferred RUnlock:
\* cleanupExpired for the key (Keys: for each key of the map), then the
\* lookup; handleExists and handleKeys encode the answer
ReadRUnlock(c) ==
    /\ pc[c].op = "RLocked"
    /\ LET cmd == pc[c].cmd
           st == IF cmd.name = "EXISTS" THEN cleanupExpired(cmd.key) ELSE CleanupKeys(Keys)
       IN  /\ db' = st.db /\ expiration' = st.exp
           /\ last' = [conn |-> c, cmd |-> cmd,
                       reply |-> IF cmd.name = "KEYS" THEN "ARRAY"
                                 ELSE IF st.db[currentDB][cmd.key].Type # "none"
                                      THEN "INT1" ELSE "INT0"]
    /\ pc' = [pc EXCEPT ![c] = AtIdle]
    /\ UNCHANGED <<currentDB, tx, watchDirty, selected, now>>
    /\ UnchangedAuth
    /\ UNCHANGED psvars
    /\ UNCHANGED cpvars
    /\ UNCHANGED lkvars
    /\ UNCHANGED pfvars
    /\ UNCHANGED auvars
    /\ UNCHANGED rwvars
    /\ UNCHANGED idvars
    /\ UNCHANGED hdvars

\* A command whose store method takes Store.mu.Lock: it waits for the readers
WriteLocked(c, cmd) ==
    /\ NoStoreReader
    /\ KeyCommand(c, cmd)

\* The commands that write in this model.
ReadWriteCmds == {cmd \in SetCmds \cup ExpireCmds : cmd.key \in ExpKeys}

InitRead == InitCommon /\ password = ""

NextRead ==
    \/ \E c \in Conns, cmd \in ExistsCmds \cup KeysCmds : ReadRLock(c, cmd)
    \/ \E c \in Conns : ReadRUnlock(c)
    \/ \E c \in Conns, cmd \in ReadWriteCmds : WriteLocked(c, cmd)
    \/ Tick

SpecRead == InitRead /\ [][NextRead]_vars

\* C39: a step of a goroutine that holds Store.mu only for reading leaves the
\* data map and the expiration map of every database as they are.
C39_ReadLockNoWrite ==
    [][\A c \in Conns :
          (pc[c].op = "RLocked" /\ pc'[c].op # "RLocked")
          => (db' = db /\ expiration' = expiration)]_vars

-----------------------------------------------------------------------------
(* The indexes of the publish/subscribe system.  Subscribe calls           *)
(* GetSubscriber, which takes and releases PubSubSystem.mu, and then takes *)
(* the lock again for the channels.  When a connection ends, the deferred  *)
(* function of handleConnection runs; it does not call the                 *)
(* publish/subscribe system.                                               *)

\* Subscribe, "sub := ps.GetSubscriber(connKey, conn)": a key that is not
\* registered gets a new Subscriber with no channel and no pattern
SubscribeGet(s, channel) ==
    /\ handler[s].op = "idle"
    /\ NoReader
    /\ subscribers' = subscribers \cup {s}
    /\ channels' = IF s \in subscribers THEN channels ELSE [channels EXCEPT ![s] = {}]
    /\ patterns' = IF s \in subscribers THEN patterns ELSE [patterns EXCEPT ![s] = {}]
    /\ handler' = [handler EXCEPT ![s] = [op |-> "SUBSCRIBE", channel |-> channel]]
    /\ last' = [conn |-> s, cmd |-> [name |-> "SUBSCRIBE"], reply |-> "none"]
    /\ UNCHANGED <<channelSubs, patternSubs, messageChan, received, published, placed>>
    /\ UNCHANGED pc /\ UNCHANGED kvvars
    /\ UNCHANGED cpvars
    /\ UNCHANGED exvars
    /\ UNCHANGED lkvars
    /\ UNCHANGED pfvars
    /\ UNCHANGED auvars
    /\ UNCHANGED rwvars
    /\ UNCHANGED idvars

\* Subscribe, from its own ps.mu.Lock() to the return: the channel enters
\* the set of the subscriber and the subscriber the index of the channel
SubscribeLocked(s) ==
    /\ handler[s].op = "SUBSCRIBE"
    /\ NoReader
    /\ LET channel == handler[s].channel
       IN  /\ channels' = [channels EXCEPT ![s] = @ \cup {channel}]
           /\ channelSubs' = [channelSubs EXCEPT ![channel] = @ \cup {s}]
    /\ handler' = [handler EXCEPT ![s] = AtIdle]
    /\ last' = [conn |-> s, cmd |-> [name |-> "SUBSCRIBE"], reply |-> "subscribe"]
    /\ UNCHANGED <<subscribers, patterns, patternSubs, messageChan, received,
                   published, placed>>
    /\ UNCHANGED pc /\ UNCHANGED kvvars
    /\ UNCHANGED cpvars
    /\ UNCHANGED exvars
    /\ UNCHANGED lkvars
    /\ UNCHANGED pfvars
    /\ UNCHANGED auvars
    /\ UNCHANGED rwvars
    /\ UNCHANGED idvars

\* UNSUBSCRIBE and PSUBSCRIBE of a connection whose handler is between two
\* commands
HandlerUnsubscribe(s, channel) ==
    /\ handler[s].op = "idle"
    /\ Unsubscribe(s, channel)

HandlerPSubscribe(s, pattern) ==
    /\ handler[s].op = "idle"
    /\ PSubscribe(s, pattern)

\* handleConnection, the deferred function, for a subscribing connection:
\* removeClient, authenticatedConns.Delete(connKey), conn.Close()
SubscriberClose(s) ==
    /\ handler[s].op = "idle"
    /\ handler' = [handler EXCEPT ![s] = Closed]
    /\ authenticatedConns' = authenticatedConns \ {s}
    /\ last' = [conn |-> s, cmd |-> [name |-> "CLOSE"], reply |-> "none"]
    /\ UNCHANGED <<db, currentDB, password, tx, watchDirty, selected, pc>>
    /\ UNCHANGED psvars
    /\ UNCHANGED cpvars
    /\ UNCHANGED exvars
    /\ UNCHANGED lkvars
    /\ UNCHANGED pfvars
    /\ UNCHANGED auvars
    /\ UNCHANGED rwvars
    /\ UNCHANGED idvars

InitIndex == InitCommon /\ password = ""

NextIndex ==
    \/ \E s \in SubConns :
           \/ \E channel \in Channels : SubscribeGet(s, channel)
           \/ SubscribeLocked(s)
           \/ \E channel \in Channels : HandlerUnsubscribe(s, channel)
           \/ SubscriberClose(s)
    \/ \E s \in PatternClients, pattern \in Patterns : HandlerPSubscribe(s, pattern)
    \/ \E c \in Conns :
           \/ \E channel \in Channels : PublishBegin(c, channel)
           \/ PublishSend(c)

SpecIndex == InitIndex /\ [][NextIndex]_vars

\* C40: a connection is in the index of a channel or pattern exactly when
\* the channel or pattern is in its own set and it is registered, and no
\* channel or pattern refers to a connection that has ended.
C40_IndexesConsistent ==
    \A s \in SubConns :
        /\ \A channel \in Channels :
               s \in channelSubs[channel] <=> (channel \in channels[s] /\ s \in subscribers)
        /\ \A pattern \in Patterns :
               s \in patternSubs[pattern] <=> (pattern \in patterns[s] /\ s \in subscribers)
        /\ handler[s] = Closed =>
               /\ \A channel \in Channels : s \notin channelSubs[channel]
               /\ \A pattern \in Patterns : s \notin patternSubs[pattern]

====
